---- MODULE Spec2Model ----
(***************************************************************************)
(* A model of ClairS' paired candidate enumeration and tensor creation     *)
(* (src/src/create_pair_tensor.py): the pileup decoder, the per-stream     *)
(* candidate generators, heapq.merge over the two generators, the paired   *)
(* merge heapq_merge_generator_from and the tensor builder.                *)
(*                                                                         *)
(* Python strings are sequences of one-character strings, Python indices   *)
(* are shifted by one (TLA+ sequences start at 1), and a fraction a/b is   *)
(* the pair <<a, b>> compared by cross multiplication.                     *)
(***************************************************************************)
EXTENDS Integers, Sequences, FiniteSets, TLC

(***************************************************************************)
(* Bounds of the model.                                                    *)
(***************************************************************************)
\* pileup rows have positions 1..MaxPos, unless the run names the positions
\* its reads cover
MaxPos == 5
\* the normal pileup stream holds at most MaxNormalRows rows, the tumor one at
\* most MaxTumorRows
MaxNormalRows == 2
MaxTumorRows == 3
\* the paired merge, checked alone, receives at most MaxEvents events per
\* stream, at positions 1..MaxEventPos
MaxEvents == 3
MaxEventPos == 3

(***************************************************************************)
(* Program constants (shared.param and the command line), scaled down.     *)
(***************************************************************************)
flanking_base_num == 1
no_of_positions == 2 * flanking_base_num + 1
channel_size == 8
extend_bp == 0
extend_bp_distance == no_of_positions + extend_bp
min_coverage == 2
normal_matrix_depth == 2
tumor_matrix_depth == 3
\* --snv_min_af and --indel_min_af as fractions <<numerator, denominator>>
minimum_snv_af_for_candidate == <<1, 2>>
minimum_indel_af_for_candidate == <<1, 2>>

Samples == {"normal", "tumor"}
IsTumor(s) == s = "tumor"

(***************************************************************************)
(* Small helpers standing for Python built-ins.                            *)
(***************************************************************************)
Min(a, b) == IF a <= b THEN a ELSE b
Max(a, b) == IF a >= b THEN a ELSE b

SetMin(S) == CHOOSE x \in S : \A y \in S : x <= y

\* the elements of a set of integers in decreasing order
SortedSeqDescending(S) ==
    CHOOSE q \in [1..Cardinality(S) -> S] :
        \A i \in 1..Cardinality(S) : \A j \in 1..Cardinality(S) : i < j => q[i] > q[j]

RECURSIVE SortedSeq(_)
\* sorted(list(S)) for a set of integers
SortedSeq(S) ==
    IF S = {} THEN <<>>
    ELSE LET m == SetMin(S) IN <<m>> \o SortedSeq(S \ {m})

Range(seq) == {seq[i] : i \in 1..Len(seq)}

\* str.upper() on one character
Upper(ch) ==
    CASE ch = "a" -> "A"
      [] ch = "c" -> "C"
      [] ch = "g" -> "G"
      [] ch = "t" -> "T"
      [] ch = "n" -> "N"
      [] OTHER -> ch

UpperSeq(seq) == [i \in 1..Len(seq) |-> Upper(seq[i])]

Digits == {"0", "1", "2", "3", "4", "5", "6", "7", "8", "9"}

\* int(num) for one digit
DigitVal(ch) ==
    CASE ch = "0" -> 0 [] ch = "1" -> 1 [] ch = "2" -> 2 [] ch = "3" -> 3
      [] ch = "4" -> 4 [] ch = "5" -> 5 [] ch = "6" -> 6 [] ch = "7" -> 7
      [] ch = "8" -> 8 [] OTHER -> 9

\* s[a:b] of Python (0-based, end exclusive, clipped to the string)
Slice(seq, a, b) ==
    LET lo == Min(Max(a, 0), Len(seq))
        hi == Min(Max(b, lo), Len(seq))
    IN  [i \in 1..(hi - lo) |-> seq[lo + i]]

(***************************************************************************)
(* decode_pileup_bases: the scanner of the pileup bases string and the     *)
(* allele-frequency gate.                                                  *)
(***************************************************************************)
BaseChars == {"A", "C", "G", "T", "N", "a", "c", "g", "t", "n", "#", "*"}

\* depth of a row that the candidate BED exempts from the gate (Python None)
NoneDepth == -1

RECURSIVE ScanDigits(_, _, _)
\* the `while True` loop reading the length of an indel; idx is the Python
\* index; raised: pileup_bases[base_idx] is past the end (IndexError)
ScanDigits(s, idx, advance) ==
    IF idx >= Len(s) THEN [raised |-> TRUE, idx |-> idx, advance |-> advance]
    ELSE IF s[idx + 1] \in Digits
         THEN ScanDigits(s, idx + 1, advance * 10 + DigitVal(s[idx + 1]))
         ELSE [raised |-> FALSE, idx |-> idx, advance |-> advance]

\* the step of the scanner at a '+' or '-': raised when the digit run reaches
\* the end of the string or when base_list[-1] does not exist
IndelRaises(s, base_idx, base_list) ==
    ScanDigits(s, base_idx + 1, 0).raised \/ base_list = <<>>

\* base_list[-1][1] = base + pileup_bases[base_idx: base_idx + advance]
SetIndel(s, base, d, base_list) ==
    [base_list EXCEPT ![Len(base_list)].indel =
        <<base>> \o Slice(s, d.idx, d.idx + d.advance)]

\* a scanner that resumes at the first character of the indel sequence
AfterIndelAtSequence(d) == d.idx

\* base_idx after an indel: base_idx += advance - 1, then base_idx += 1
AfterIndel(d) == d.idx + d.advance - 1 + 1

RECURSIVE ScanBases(_, _, _)
\* the `while base_idx < len(pileup_bases)` loop
ScanBases(s, base_idx, base_list) ==
    IF base_idx >= Len(s) THEN [raised |-> FALSE, base_list |-> base_list]
    ELSE IF s[base_idx + 1] \in {"+", "-"}
         THEN IF IndelRaises(s, base_idx, base_list)
              THEN [raised |-> TRUE, base_list |-> base_list]
              ELSE ScanBases(s, AfterIndel(ScanDigits(s, base_idx + 1, 0)),
                             SetIndel(s, s[base_idx + 1], ScanDigits(s, base_idx + 1, 0),
                                      base_list))
         ELSE IF s[base_idx + 1] \in BaseChars
         THEN ScanBases(s, base_idx + 1,
                        Append(base_list, [base |-> s[base_idx + 1], indel |-> <<>>]))
         ELSE IF s[base_idx + 1] = "^"
         THEN ScanBases(s, base_idx + 2, base_list)
         ELSE ScanBases(s, base_idx + 1, base_list)

\* pileup_dict[key] += n on an insertion-ordered dict, a sequence of
\* [key, count]
DictAdd(d, key, n) ==
    IF \E i \in 1..Len(d) : d[i].key = key
    THEN [i \in 1..Len(d) |->
            IF d[i].key = key THEN [d[i] EXCEPT !.count = @ + n] ELSE d[i]]
    ELSE Append(d, [key |-> key, count |-> n])

\* whether a read counts towards depth
CountsForDepth(b) == Upper(b.base) \in {"A", "C", "G", "T"} \/ b.base \in {"#", "*"}

\* pileup_dict[key[0].upper()] += count
CountBase(b, d) ==
    IF Upper(b.base) \in {"A", "C", "G", "T"} THEN DictAdd(d, Upper(b.base), 1) ELSE d

\* pileup_dict['I'] += count, pileup_dict['D'] += count
CountIndel(b, d) ==
    IF Len(b.indel) > 0 /\ b.indel[1] = "+" THEN DictAdd(d, "I", 1)
    ELSE IF Len(b.indel) > 0 /\ b.indel[1] = "-" THEN DictAdd(d, "D", 1)
    ELSE d

RECURSIVE CountBases(_, _, _)
\* the loop over base_counter: the allele counts, in insertion order
CountBases(base_list, i, d) ==
    IF i > Len(base_list) THEN d
    ELSE CountBases(base_list, i + 1, CountIndel(base_list[i], CountBase(base_list[i], d)))

PileupDepth(base_list) ==
    Cardinality({i \in 1..Len(base_list) : CountsForDepth(base_list[i])})

RECURSIVE InsertByCount(_, _)
\* insert x after every item whose count is >= x.count (stable, descending)
InsertByCount(sorted, x) ==
    IF sorted = <<>> THEN <<x>>
    ELSE IF Head(sorted).count >= x.count
         THEN <<Head(sorted)>> \o InsertByCount(Tail(sorted), x)
         ELSE <<x>> \o sorted

RECURSIVE SortByCountDesc(_, _)
\* sorted(items, key=lambda x: x[1], reverse=True)
SortByCountDesc(d, acc) ==
    IF d = <<>> THEN acc
    ELSE SortByCountDesc(Tail(d), InsertByCount(acc, Head(d)))

\* float(count) / denominator >= threshold
AfAtLeast(count, denominator, threshold) ==
    count * threshold[2] >= threshold[1] * denominator

\* one item of pileup_list passes its threshold
ItemPasses(item, reference_base, denominator) ==
    /\ item.key # reference_base
    /\ IF item.key \in {"I", "D"}
       THEN AfAtLeast(item.count, denominator, minimum_indel_af_for_candidate)
       ELSE AfAtLeast(item.count, denominator, minimum_snv_af_for_candidate)

\* pass_af: the loop over pileup_list stops at the first item that passes
PassAf(pileup_list, reference_base, denominator) ==
    \E i \in 1..Len(pileup_list) : ItemPasses(pileup_list[i], reference_base, denominator)

\* af: the second largest count, or the largest when it is not the reference
AfOf(pileup_list, reference_base, denominator) ==
    IF Len(pileup_list) >= 1 /\ pileup_list[1].key # reference_base
    THEN <<pileup_list[1].count, denominator>>
    ELSE IF Len(pileup_list) > 1 THEN <<pileup_list[2].count, denominator>>
    ELSE <<0, denominator>>

\* denominator = depth if depth > 0 else 1
Denominator(depth) == IF depth > 0 THEN depth ELSE 1

\* what decode_pileup_bases returns for a row the gate examines
GateOf(base_list, depth, pileup_list, reference_base) ==
    [raised |-> FALSE, base_list |-> base_list, depth |-> depth,
     pass_af |-> PassAf(pileup_list, reference_base, Denominator(depth)),
     af |-> AfOf(pileup_list, reference_base, Denominator(depth))]

\* decode_pileup_bases after the scanner
DecodeScanned(pos, scan, reference_base, has_pileup_candidates, candidates_type_dict, is_tumor) ==
    IF scan.raised
    THEN [raised |-> TRUE, base_list |-> <<>>, depth |-> NoneDepth,
          pass_af |-> FALSE, af |-> <<0, 1>>]
    ELSE IF has_pileup_candidates
            /\ (pos \notin DOMAIN candidates_type_dict \/ ~is_tumor)
    THEN [raised |-> FALSE, base_list |-> scan.base_list, depth |-> NoneDepth,
          pass_af |-> TRUE, af |-> <<1, 1>>]
    ELSE GateOf(scan.base_list, PileupDepth(scan.base_list),
                SortByCountDesc(CountBases(scan.base_list, 1, <<>>), <<>>),
                reference_base)

\* decode_pileup_bases; raised: an IndexError leaves the function
decode_pileup_bases(pos, pileup_bases, reference_base, has_pileup_candidates, candidates_type_dict, is_tumor) ==
    DecodeScanned(pos, ScanBases(pileup_bases, 0, <<>>), reference_base,
                  has_pileup_candidates, candidates_type_dict, is_tumor)

(***************************************************************************)
(* Encodings imported from src.create_tensor, which the repository keeps   *)
(* outside the files modelled here; their values follow the specification: *)
(* the base table A, C, G, T -> 1..4, the strand codes, the haplotype      *)
(* palettes and the quality curves.                                        *)
(***************************************************************************)
ACGT_NUM(ch) ==
    CASE ch = "A" -> 1 [] ch = "C" -> 2 [] ch = "G" -> 3 [] ch = "T" -> 4
      [] ch = "N" -> 1 [] ch = "+" -> 5 [] ch = "-" -> 6 [] OTHER -> 7

STRAND_0 == 0
STRAND_1 == 1

NORMAL_HAP_TYPE(hp) == CASE hp = 1 -> 30 [] hp = 2 -> 90 [] OTHER -> 60
TUMOR_HAP_TYPE(hp) == CASE hp = 1 -> 35 [] hp = 2 -> 95 [] OTHER -> 65

normalize_bq(x) == (100 * Min(x, 40)) \div 40
normalize_mq(x) == (100 * Min(x, 60)) \div 60

\* --mask_low_bq and --tensor_sample_mode, at their defaults
mask_low_bq == FALSE
tensor_sample_mode == FALSE

(***************************************************************************)
(* Position.update_infos and get_tensor_info.                              *)
(***************************************************************************)
phredscore2raw_score(qual) == qual - 33

evc_base_from(base) ==
    IF base = "N" THEN "A"
    ELSE IF base = "n" THEN "a"
    ELSE IF base \in {"A", "C", "G", "T", "a", "c", "g", "t"} THEN base
    ELSE IF Upper(base) = base THEN "A"
    ELSE "a"

ZeroChannel == [i \in 1..channel_size |-> 0]

\* the read carries a base that differs from the reference and no indel
IsSnv(base, indel, ref_base) ==
    indel = <<>> /\ Upper(base) # ref_base /\ Upper(base) \in {"A", "C", "G", "T"}

\* `if mask_low_bq and bq < 33 and ALT_BASE`
Masked(base, indel, bq, ref_base) ==
    IsSnv(base, indel, ref_base) /\ mask_low_bq /\ bq < 33
        /\ ACGT_NUM(evc_base_from(Upper(base))) # 0

AltBase(base, indel, bq, ref_base) ==
    IF indel # <<>> THEN ACGT_NUM(indel[1])
    ELSE IF IsSnv(base, indel, ref_base) /\ ~Masked(base, indel, bq, ref_base)
    THEN ACGT_NUM(evc_base_from(Upper(base)))
    ELSE 0

InsBase(indel) ==
    IF Len(indel) > 0 /\ indel[1] = "+" THEN UpperSeq(Tail(indel)) ELSE <<>>

\* read_channel[:6] = REF_BASE, ALT_BASE, strand, bq, read_mq, hap_type
ReadChannel(base, indel, bq, ref_base, read_mq, hap_type) ==
    [i \in 1..channel_size |->
        CASE i = 1 -> ACGT_NUM(ref_base)
          [] i = 2 -> AltBase(base, indel, bq, ref_base)
          [] i = 3 -> (IF base \in {"A", "C", "G", "T"} THEN STRAND_0 ELSE STRAND_1)
          [] i = 4 -> (IF Masked(base, indel, bq, ref_base) THEN 0 ELSE bq)
          [] i = 5 -> read_mq
          [] i = 6 -> hap_type
          [] OTHER -> 0]

\* get_tensor_info: the channels of one read at one position and its
\* inserted bases
get_tensor_info(base_info, bq, ref_base, read_mq, is_tumor, hp) ==
    IF base_info.base \in {"*", "#"}
    THEN [read_channel |-> [ZeroChannel EXCEPT ![2] = ACGT_NUM(base_info.base)],
          ins_base |-> <<>>]
    ELSE [read_channel |->
            ReadChannel(base_info.base, base_info.indel, bq, ref_base, read_mq,
                        IF is_tumor THEN TUMOR_HAP_TYPE(hp) ELSE NORMAL_HAP_TYPE(hp)),
          ins_base |-> InsBase(base_info.indel)]

\* hap_dict[read_name] if read_name in hap_dict else 0
HapOrZero(hap_dict, read_name) ==
    IF read_name \in DOMAIN hap_dict THEN hap_dict[read_name] ELSE 0

\* the number of tuples zip() makes of the four lists of a Position
ZipLen(position) ==
    Min(Min(Len(position.read_name_list), Len(position.base_list)),
        Min(Len(position.raw_base_quality), Len(position.raw_mapping_quality)))

\* the last tuple of the zip that carries the read name
LastOf(position, name) ==
    CHOOSE i \in 1..ZipLen(position) :
        /\ position.read_name_list[i] = name
        /\ \A j \in 1..ZipLen(position) : position.read_name_list[j] = name => j <= i

\* get_tensor_info on the i-th tuple of the zip
TensorInfoAt(position, i, is_tumor, hp) ==
    get_tensor_info(position.base_list[i],
        normalize_bq(phredscore2raw_score(position.raw_base_quality[i])),
        position.ref_base,
        normalize_mq(phredscore2raw_score(position.raw_mapping_quality[i])),
        is_tumor, hp)

\* Position.update_infos: fills read_info, one entry per read name (the last
\* read of a name wins, as in a dict)
update_infos(position, is_tumor, hap_dict) ==
    [position EXCEPT
        !.update_info = TRUE,
        !.read_info =
            [name \in {position.read_name_list[i] : i \in 1..ZipLen(position)} |->
                TensorInfoAt(position, LastOf(position, name), is_tumor,
                             HapOrZero(hap_dict, name))]]

(***************************************************************************)
(* sorted_by_hap_read_name: the reads of the window, deduplicated, capped  *)
(* by the matrix depth and sorted by haplotype.                            *)
(***************************************************************************)
WindowStart(center_pos) == center_pos - flanking_base_num
WindowEnd(center_pos) == center_pos + flanking_base_num + 1

RECURSIVE NearbyReadNames(_, _, _)
\* all_nearby_read_name += pileup_dict[p].read_name_list for p in the window
NearbyReadNames(pileup_dict, p, end_pos) ==
    IF p >= end_pos THEN <<>>
    ELSE (IF p \in DOMAIN pileup_dict THEN pileup_dict[p].read_name_list ELSE <<>>)
            \o NearbyReadNames(pileup_dict, p + 1, end_pos)

RECURSIVE OrderedUnique(_, _)
\* list(OrderedDict.fromkeys(names))
OrderedUnique(names, acc) ==
    IF names = <<>> THEN acc
    ELSE OrderedUnique(Tail(names),
            IF Head(names) \in Range(acc) THEN acc ELSE Append(acc, Head(names)))

\* the first k indices, left in decreasing order
RandomSampleUnsorted(n, k) == [i \in 1..k |-> k - i]

\* random.seed(0); sorted(random.sample(range(n), k)): the indices CPython's
\* Mersenne Twister draws, for the sizes the model reaches
RandomSampleSeed0(n, k) ==
    CASE n = 2 /\ k = 1 -> <<1>>
      [] n = 3 /\ k = 1 -> <<1>>
      [] n = 3 /\ k = 2 -> <<1, 2>>
      [] n = 4 /\ k = 1 -> <<3>>
      [] n = 4 /\ k = 2 -> <<1, 3>>
      [] n = 4 /\ k = 3 -> <<0, 1, 3>>
      [] OTHER -> [i \in 1..k |-> i - 1]

\* every gathered read is kept
CapByDepthNone(names, matrix_depth, use_tensor_sample_mode) == names

\* the reads kept when more than matrix_depth are gathered
CapByDepth(names, matrix_depth, use_tensor_sample_mode) ==
    IF Len(names) > matrix_depth /\ ~use_tensor_sample_mode
    THEN [i \in 1..matrix_depth |->
            names[RandomSampleSeed0(Len(names), matrix_depth)[i] + 1]]
    ELSE names

\* the tuple is put first, whatever its haplotype
InsertByHapAtFront(sorted, x) == <<x>> \o sorted

RECURSIVE InsertByHap(_, _)
InsertByHap(sorted, x) ==
    IF sorted = <<>> THEN <<x>>
    ELSE IF Head(sorted).hap <= x.hap
         THEN <<Head(sorted)>> \o InsertByHap(Tail(sorted), x)
         ELSE <<x>> \o sorted

RECURSIVE SortByHapOrder(_, _)
\* sorted(sorted_read_name_list, key=lambda x: (x[0], x[1])); the input is in
\* increasing order already
SortByHapOrder(items, acc) ==
    IF items = <<>> THEN acc
    ELSE SortByHapOrder(Tail(items), InsertByHap(acc, Head(items)))

\* d[name] on a defaultdict(int): a missing name is inserted with 0
TouchAll(d, names) ==
    [name \in (DOMAIN d) \cup Range(names) |-> IF name \in DOMAIN d THEN d[name] ELSE 0]

\* the (hap, order, read_name) tuples, before they are sorted
Annotated(all_nearby_read_name, haplotag_dict, hap_dict) ==
    [i \in 1..Len(all_nearby_read_name) |->
        [hap |-> Max(HapOrZero(haplotag_dict, all_nearby_read_name[i]),
                     HapOrZero(hap_dict, all_nearby_read_name[i])),
         order |-> i - 1,
         read_name |-> all_nearby_read_name[i]]]

\* sorted_by_hap_read_name once all_nearby_read_name is sampled
SortedOf(all_nearby_read_name, haplotag_dict, hap_dict) ==
    [sorted_read_name_list |->
        SortByHapOrder(Annotated(all_nearby_read_name, haplotag_dict, hap_dict), <<>>),
     haplotag_dict |-> TouchAll(haplotag_dict, all_nearby_read_name),
     hap_dict |-> TouchAll(hap_dict, all_nearby_read_name)]

\* sorted_by_hap_read_name; also what the lookups leave in the two
\* defaultdicts
sorted_by_hap_read_name(center_pos, haplotag_dict, pileup_dict, hap_dict, max_depth, use_tensor_sample_mode) ==
    SortedOf(CapByDepth(OrderedUnique(NearbyReadNames(pileup_dict, WindowStart(center_pos),
                                                      WindowEnd(center_pos)), <<>>),
                        max_depth, use_tensor_sample_mode),
             haplotag_dict, hap_dict)

(***************************************************************************)
(* The confident-region BED (shared.interval_tree, outside the files       *)
(* modelled here): a set of half-open intervals <<begin, end>>.            *)
(***************************************************************************)
is_region_in(tree, region_start, region_end) ==
    \E iv \in tree : iv[1] < region_end /\ iv[2] > region_start

(***************************************************************************)
(* generate_tensor.  tensor[read_idx][offset] = read_channel stores the    *)
(* list object kept in read_info, so a cell of the tensor is either that   *)
(* shared list or a fresh list of zeros; the insertion loop writes channel *)
(* 6 of the cell, whichever it is.                                         *)
(***************************************************************************)
\* the cell of read read_idx at column offset is the list kept in read_info
CellShared(pileup_dict, sorted_read_name_list, start_pos, read_idx, offset) ==
    /\ (start_pos + offset) \in DOMAIN pileup_dict
    /\ sorted_read_name_list[read_idx].read_name
            \in DOMAIN pileup_dict[start_pos + offset].read_info

\* the loop `for p in range(start_pos, end_pos)`: update_infos of the
\* positions of the window that were not updated yet
UpdateWindow(pileup_dict, center_pos, is_tumor, hap_dict) ==
    [p \in DOMAIN pileup_dict |->
        IF p >= WindowStart(center_pos) /\ p < WindowEnd(center_pos)
           /\ ~pileup_dict[p].update_info
        THEN update_infos(pileup_dict[p], is_tumor, hap_dict)
        ELSE pileup_dict[p]]

\* whether an insertion at column offset is appended to insert_tuple
SpillRecorded(ins_base, p, end_pos) == ins_base # <<>> /\ p < end_pos - 1

\* the first column the inserted bases of an insertion at column offset go to
SpillStart(offset) == offset

\* (read_channel, ins_base) of the read at a column of the window
ReadInfoAt(pileup_dict, sorted_read_name_list, start_pos, read_idx, offset) ==
    pileup_dict[start_pos + offset].read_info[sorted_read_name_list[read_idx].read_name]

\* what one (column, read) step appends to insert_tuple
InsertTupleAt(pileup_dict, sorted_read_name_list, start_pos, offset, read_idx) ==
    IF CellShared(pileup_dict, sorted_read_name_list, start_pos, read_idx, offset)
       /\ SpillRecorded(ReadInfoAt(pileup_dict, sorted_read_name_list, start_pos,
                                   read_idx, offset).ins_base,
                        start_pos + offset, start_pos + no_of_positions)
    THEN <<[read_idx |-> read_idx, offset |-> offset,
            ins_base |-> ReadInfoAt(pileup_dict, sorted_read_name_list, start_pos,
                                    read_idx, offset).ins_base]>>
    ELSE <<>>

RECURSIVE InsertTuples(_, _, _, _, _)
\* insert_tuple, in the order of the two loops (columns, then reads)
InsertTuples(pileup_dict, sorted_read_name_list, start_pos, offset, read_idx) ==
    IF offset >= no_of_positions THEN <<>>
    ELSE IF read_idx > Len(sorted_read_name_list)
    THEN InsertTuples(pileup_dict, sorted_read_name_list, start_pos, offset + 1, 1)
    ELSE InsertTupleAt(pileup_dict, sorted_read_name_list, start_pos, offset, read_idx)
            \o InsertTuples(pileup_dict, sorted_read_name_list, start_pos,
                            offset, read_idx + 1)

\* range(min(len(ins_base), no_of_positions - p)), p being the column
SpillLen(t) == Min(Len(t.ins_base), no_of_positions - t.offset)

RECURSIVE SpillWrites(_, _, _)
\* the writes tensor[read_idx][ins_idx + p][6] = ACGT_NUM[ins_base[ins_idx]]
\* of the loop over insert_tuple, in order
SpillWrites(insert_tuple, i, ins_idx) ==
    IF i > Len(insert_tuple) THEN <<>>
    ELSE IF ins_idx >= SpillLen(insert_tuple[i])
    THEN SpillWrites(insert_tuple, i + 1, 0)
    ELSE <<[read_idx |-> insert_tuple[i].read_idx,
            offset |-> ins_idx + SpillStart(insert_tuple[i].offset),
            value |-> ACGT_NUM(insert_tuple[i].ins_base[ins_idx + 1])]>>
         \o SpillWrites(insert_tuple, i, ins_idx + 1)

\* one write to channel 6 of a cell that is a list kept in read_info
WriteShared(pileup_dict, sorted_read_name_list, start_pos, w) ==
    [pileup_dict EXCEPT ![start_pos + w.offset]
        .read_info[sorted_read_name_list[w.read_idx].read_name].read_channel[7] = w.value]

RECURSIVE ApplyWrites(_, _, _, _, _, _)
\* applies the writes: to read_info when the cell is its list, to the fresh
\* cell (fresh: <<read_idx, offset>> -> channel 6) otherwise
ApplyWrites(writes, i, pileup_dict, fresh, sorted_read_name_list, start_pos) ==
    IF i > Len(writes) THEN [pileup_dict |-> pileup_dict, fresh |-> fresh]
    ELSE IF writes[i].offset >= no_of_positions
    THEN ApplyWrites(writes, i + 1, pileup_dict, fresh, sorted_read_name_list, start_pos)
    ELSE IF CellShared(pileup_dict, sorted_read_name_list, start_pos,
                       writes[i].read_idx, writes[i].offset)
    THEN ApplyWrites(writes, i + 1,
                     WriteShared(pileup_dict, sorted_read_name_list, start_pos, writes[i]),
                     fresh, sorted_read_name_list, start_pos)
    ELSE ApplyWrites(writes, i + 1, pileup_dict,
                     [fresh EXCEPT ![<<writes[i].read_idx, writes[i].offset>>] = writes[i].value],
                     sorted_read_name_list, start_pos)

\* the tensor as it is serialized: a cell is the list of read_info or a fresh
\* list of zeros with the channel 6 written to it
TensorOf(done, sorted_read_name_list, start_pos) ==
    [read_idx \in 1..Len(sorted_read_name_list) |->
        [col \in 1..no_of_positions |->
            IF CellShared(done.pileup_dict, sorted_read_name_list, start_pos,
                          read_idx, col - 1)
            THEN ReadInfoAt(done.pileup_dict, sorted_read_name_list, start_pos,
                            read_idx, col - 1).read_channel
            ELSE [ZeroChannel EXCEPT ![7] = done.fresh[<<read_idx, col - 1>>]]]]

\* what generate_tensor returns after the loop over insert_tuple
TensorDone(done, sorted_read_name_list, start_pos) ==
    [none |-> FALSE, tensor |-> TensorOf(done, sorted_read_name_list, start_pos),
     pileup_dict |-> done.pileup_dict]

\* the fresh cells of the tensor: channel 6 of [0] * channel_size
FreshCells(tensor_depth) ==
    [c \in (1..tensor_depth) \X (0..(no_of_positions - 1)) |-> 0]

\* generate_tensor once update_infos has run on the window
TensorFrom(updated, sorted_read_name_list, start_pos) ==
    TensorDone(ApplyWrites(SpillWrites(InsertTuples(updated, sorted_read_name_list,
                                                    start_pos, 0, 1), 1, 0),
                           1, updated, FreshCells(Len(sorted_read_name_list)),
                           sorted_read_name_list, start_pos),
               sorted_read_name_list, start_pos)

\* str(n) for n >= 0, as its characters
DigitChar(d) == CHOOSE ch \in Digits : DigitVal(ch) = d

RECURSIVE IntStr(_)
IntStr(n) == IF n < 10 THEN <<DigitChar(n)>> ELSE IntStr(n \div 10) \o <<DigitChar(n % 10)>>

\* the key a read of the center row adds to alt_dict, <<>> when it adds none
AltKey(b, reference_base) ==
    IF b.base \in {"#", "*"} THEN <<>>
    ELSE IF b.indel # <<>>
    THEN IF b.indel[1] = "+"
         THEN <<"+", Upper(b.base)>> \o UpperSeq(Tail(b.indel))
         ELSE UpperSeq(b.indel)
    ELSE IF Upper(b.base) # reference_base THEN <<Upper(b.base)>>
    ELSE <<>>

RECURSIVE AltDict(_, _, _, _)
\* alt_dict after the loop over the base_list of the center row, in insertion
\* order
AltDict(base_list, i, d, reference_base) ==
    IF i > Len(base_list) THEN d
    ELSE AltDict(base_list, i + 1,
                 IF AltKey(base_list[i], reference_base) = <<>> THEN d
                 ELSE DictAdd(d, AltKey(base_list[i], reference_base), 1),
                 reference_base)

\* the name alt_info gives a key of alt_dict: I and the inserted bases, D and
\* the reference bases after the center, X and the base
AltName(alt_type, center_pos, reference_sequence, reference_start) ==
    IF alt_type[1] = "+" THEN <<"I">> \o UpperSeq(Tail(alt_type))
    ELSE IF alt_type[1] = "-"
    THEN <<"D">> \o Slice(reference_sequence, center_pos - reference_start + 1,
                          center_pos - reference_start + Len(Tail(alt_type)) + 1)
    ELSE <<"X">> \o alt_type

RECURSIVE AltItems(_, _, _, _, _)
\* ' '.join of the `name count` items of alt_info
AltItems(alt_dict, i, center_pos, reference_sequence, reference_start) ==
    IF i > Len(alt_dict) THEN <<>>
    ELSE (IF i > 1 THEN <<" ">> ELSE <<>>)
         \o AltName(alt_dict[i].key, center_pos, reference_sequence, reference_start)
         \o <<" ">> \o IntStr(alt_dict[i].count)
         \o AltItems(alt_dict, i + 1, center_pos, reference_sequence, reference_start)

\* alt_info: str(depth) + '-' + the items + '-' + af_infos, af_infos being
\* empty; the string as the sequence of its characters
AltInfoOf(base_list, center_pos, reference_base, reference_sequence, reference_start) ==
    IntStr(Len(base_list)) \o <<"-">>
        \o AltItems(AltDict(base_list, 1, <<>>, reference_base), 1, center_pos,
                    reference_sequence, reference_start)
        \o <<"-">>

\* pass_confident_bed
PassConfidentBed(confident_bed_tree, center_pos) ==
    confident_bed_tree = {}
        \/ is_region_in(confident_bed_tree, center_pos - 2,
                        center_pos + flanking_base_num + 1)

\* generate_tensor, for a ref_seq longer than flanking_base_num: none when the
\* function returns (None, None); the tensor as serialized at the end, the
\* alt_info string, and the window as the function leaves it
generate_tensor(center_pos, sorted_read_name_list, pileup_dict, ref_seq, reference_sequence, reference_start, confident_bed_tree, is_tumor, hap_dict) ==
    IF Len(sorted_read_name_list) = 0 \/ ~PassConfidentBed(confident_bed_tree, center_pos)
    THEN [none |-> TRUE, tensor |-> <<>>, pileup_dict |-> pileup_dict, alt_info |-> <<>>]
    ELSE TensorFrom(UpdateWindow(pileup_dict, center_pos, is_tumor, hap_dict),
                    sorted_read_name_list, WindowStart(center_pos))
            @@ [alt_info |-> AltInfoOf(pileup_dict[center_pos].base_list, center_pos,
                                       ref_seq[flanking_base_num + 1],
                                       reference_sequence, reference_start)]

(***************************************************************************)
(* Inputs: the reference, the pileup rows a stream may hold and the        *)
(* configurations of a run.                                                *)
(***************************************************************************)
\* reference_sequence, fetched from reference_start on
reference_sequence == <<"A", "N", "A", "C", "A", "A", "A", "A", "A", "A">>
reference_start == 1

\* pileup rows without their position: columns 4..8 of the line; qualities
\* are the character codes of the quality strings
\* two reads matching an A reference, one per strand
RowRef ==
    [bases |-> <<"A", "a">>, names |-> <<"r1", "r2">>,
     bq |-> <<73, 73>>, mq |-> <<93, 93>>, hp |-> <<"1", "0">>]
\* three reads, two with T; the first read starts here ('^' and its quality '+')
RowSnv ==
    [bases |-> <<"^", "+", "A", "T", "T", "$">>, names |-> <<"r1", "r2", "r3">>,
     bq |-> <<73, 53, 73>>, mq |-> <<93, 93, 63>>, hp |-> <<"1", "0", "2">>]
\* two reads, the first with the insertion +2CG
RowIns ==
    [bases |-> <<"A", "+", "2", "C", "G", "a">>, names |-> <<"r1", "r2">>,
     bq |-> <<73, 73>>, mq |-> <<93, 93>>, hp |-> <<"1", "0">>]
\* three reads, one with T: an allele below the thresholds
RowMinor ==
    [bases |-> <<"A", "a", "T">>, names |-> <<"r1", "r2", "r3">>,
     bq |-> <<73, 73, 53>>, mq |-> <<93, 93, 63>>, hp |-> <<"1", "0", "2">>]
\* one read with T: below min_coverage
RowLow ==
    [bases |-> <<"T">>, names |-> <<"r3">>,
     bq |-> <<73>>, mq |-> <<93>>, hp |-> <<"2">>]
\* one base for two read names
RowShort ==
    [bases |-> <<"A">>, names |-> <<"r1", "r2">>,
     bq |-> <<73, 73>>, mq |-> <<93, 93>>, hp |-> <<"1", "0">>]
\* the length of the insertion runs to the end of the string
RowBad ==
    [bases |-> <<"A", "+", "1">>, names |-> <<"r1">>,
     bq |-> <<73>>, mq |-> <<93>>, hp |-> <<"1">>]
\* two reads, one base quality
RowShortBq ==
    [bases |-> <<"A", "T">>, names |-> <<"r1", "r2">>,
     bq |-> <<73>>, mq |-> <<93, 93>>, hp |-> <<"1", "0">>]

\* two reads with the deletion -2CA, one per strand
RowDel ==
    [bases |-> <<"A", "-", "2", "C", "A", "a", "-", "2", "c", "a">>, names |-> <<"r1", "r2">>,
     bq |-> <<73, 73>>, mq |-> <<93, 93>>, hp |-> <<"1", "0">>]
\* three reads, two with deletions of two bases whose literals differ
RowDelMixed ==
    [bases |-> <<"A", "-", "2", "C", "A", "A", "-", "2", "C", "G", "T">>,
     names |-> <<"r1", "r2", "r3">>,
     bq |-> <<73, 73, 53>>, mq |-> <<93, 93, 63>>, hp |-> <<"1", "0", "2">>]

\* two reads, the first inside a deletion
RowGap ==
    [bases |-> <<"*", "a">>, names |-> <<"r1", "r2">>,
     bq |-> <<73, 73>>, mq |-> <<93, 93>>, hp |-> <<"1", "0">>]

\* two reads whose HP tags differ from those of the rows above
RowRetag ==
    [bases |-> <<"A", "a">>, names |-> <<"r1", "r2">>,
     bq |-> <<73, 73>>, mq |-> <<93, 93>>, hp |-> <<"2", "1">>]

\* the options every run below shares unless it says otherwise: no candidate
\* BED, no confident BED, no --vcf_fn, no --chunk_id, no phasing, and streams
\* of at most MaxNormalRows and MaxTumorRows rows at positions 1..MaxPos
DefaultOptions ==
    [candidates_bed |-> {}, confident_bed |-> {}, vcf_given |-> FALSE,
     known_variants |-> {}, phase |-> FALSE, chunk_id |-> 0, chunk_num |-> 0,
     upstream_closed |-> "none", extra_rows |-> 0, covered |-> {}]

\* a run: its options (the rows of --candidates_bed_regions as
\* <<start, end, type>>, type "" when the row has three columns; the intervals
\* of --bed_fn; --vcf_fn and the positions it lists; --phase_normal and
\* --phase_tumor; --chunk_id and --chunk_num, 0 when not given; the pileup
\* process that dies before it has written all its rows), the rows its two
\* pileup streams may hold, the number of rows they may hold beyond
\* MaxNormalRows and MaxTumorRows and the positions the reads cover ({} for
\* 1..MaxPos)
Configs ==
    { [name |-> "af", phase |-> TRUE,
       rows |-> [normal |-> {RowRef, RowSnv}, tumor |-> {RowRef, RowSnv}]]
            @@ DefaultOptions,
      [name |-> "gate",
       rows |-> [normal |-> {RowSnv}, tumor |-> {RowIns, RowLow, RowMinor}]]
            @@ DefaultOptions,
      [name |-> "malformed", phase |-> TRUE,
       rows |-> [normal |-> {RowSnv}, tumor |-> {RowSnv, RowShort, RowBad, RowShortBq}]]
            @@ DefaultOptions,
      [name |-> "candidates",
       candidates_bed |-> {<<2, 5, "homo_somatic">>, <<3, 6, "">>},
       rows |-> [normal |-> {RowRef}, tumor |-> {RowRef, RowSnv}]]
            @@ DefaultOptions,
      [name |-> "candidates_1bp", candidates_bed |-> {<<3, 4, "homo_somatic">>},
       rows |-> [normal |-> {RowSnv}, tumor |-> {RowRef, RowSnv}]]
            @@ DefaultOptions,
      [name |-> "confident", confident_bed |-> {<<5, 6>>},
       rows |-> [normal |-> {RowSnv}, tumor |-> {RowSnv}]]
            @@ DefaultOptions,
      [name |-> "deletion",
       rows |-> [normal |-> {RowSnv}, tumor |-> {RowDel, RowDelMixed}]]
            @@ DefaultOptions,
      [name |-> "chunk", chunk_id |-> 2, chunk_num |-> 5,
       rows |-> [normal |-> {RowSnv}, tumor |-> {RowSnv}]]
            @@ DefaultOptions,
      [name |-> "upstream_closed", upstream_closed |-> "tumor",
       rows |-> [normal |-> {RowSnv}, tumor |-> {RowSnv}]]
            @@ DefaultOptions,
      [name |-> "known_vcf", vcf_given |-> TRUE, known_variants |-> {3},
       rows |-> [normal |-> {RowRef, RowSnv}, tumor |-> {RowRef, RowSnv}]]
            @@ DefaultOptions,
      [name |-> "gap",
       rows |-> [normal |-> {RowSnv}, tumor |-> {RowIns, RowGap}]]
            @@ DefaultOptions,
      [name |-> "retag", phase |-> TRUE, covered |-> {3, 7, 8},
       rows |-> [normal |-> {RowSnv}, tumor |-> {RowSnv, RowRetag}]]
            @@ DefaultOptions,
      [name |-> "reference", extra_rows |-> 2,
       rows |-> [normal |-> {RowRef}, tumor |-> {RowRef}]]
            @@ DefaultOptions }

(***************************************************************************)
(* create_pair_tensor, before the generators start: the candidate BED.     *)
(***************************************************************************)
\* position, end and center of a row of the candidate BED
BedPosition(row) == row[1] + 1
BedEnd(row) == row[2] + 1
BedCenter(row) == BedPosition(row) + (BedEnd(row) - BedPosition(row)) \div 2 - 1

\* the length of the contig, read from the index of the reference
contig_length == Len(reference_sequence)

\* chunk_size, for a contig of length L cut into n chunks
ChunkSize(L, n) == IF L % n # 0 THEN L \div n + 1 ELSE L \div n

\* ctg_start and ctg_end of the chunk --chunk_id id (1-based) of --chunk_num n
ChunkStart(L, n, id) == ChunkSize(L, n) * (id - 1)
ChunkEnd(L, n, id) == ChunkStart(L, n, id) + ChunkSize(L, n)

\* whether ctg_start and ctg_end are set (is_ctg_range_given)
IsCtgRangeGiven(c) == c.candidates_bed # {} \/ c.chunk_id # 0

\* ctg_start and ctg_end; 0 stands for None (`not ctg_start` holds of both)
CtgStart(c) ==
    IF c.candidates_bed # {} THEN SetMin({BedPosition(row) : row \in c.candidates_bed})
    ELSE IF c.chunk_id # 0 THEN ChunkStart(contig_length, c.chunk_num, c.chunk_id)
    ELSE 0
CtgEnd(c) ==
    IF c.candidates_bed # {}
    THEN CHOOSE e \in {BedEnd(row) : row \in c.candidates_bed} :
            \A row \in c.candidates_bed : BedEnd(row) <= e
    ELSE IF c.chunk_id # 0 THEN ChunkEnd(contig_length, c.chunk_num, c.chunk_id)
    ELSE 0

\* candidates_pos_set after the filter by the contig range
CandidatesPosSet(c) ==
    {BedCenter(row) : row \in
        {r \in c.candidates_bed : BedCenter(r) >= CtgStart(c) /\ BedCenter(r) <= CtgEnd(c)}}

\* candidates_type_dict: every center of the BED, filtered or not
CandidatesTypeDict(c) ==
    [center \in {BedCenter(row) : row \in c.candidates_bed} |->
        LET row == CHOOSE r \in c.candidates_bed : BedCenter(r) = center
        IN  IF row[3] = "" THEN "unknown" ELSE row[3]]

\* has_pileup_candidates = len(candidates_pos_set), used as a truth value
HasPileupCandidates(c) == CandidatesPosSet(c) # {}

(***************************************************************************)
(* State.                                                                  *)
(***************************************************************************)
VARIABLES
    cfg,                    \* the options of the run
    last_pos,               \* per stream: the position of the last row read
    rows_read,              \* per stream: the number of rows read
    gen_pc,                 \* per generator: where it stands
    candidate_pos_list,     \* per generator
    current_pos_index,      \* per generator
    pileup_dict,            \* normal_pileup_dict and tumor_pileup_dict
    hap_dict,               \* normal_hap_dict and tumor_hap_dict
    haplotag_dict,
    heap,                   \* heapq.merge: the pending item of each generator
    awaiting,               \* the generator whose next() is running, or "none"
    normal_candidates_set,  \* heapq_merge_generator_from
    skip_if_normal_empty,
    main_pc,                \* create_pair_tensor: "merge", "emit", "done", "raised"
    cur_pos,                \* the position heapq_merge_generator_from yielded
    error,                  \* the exception that ended the run, or "none"
    records,                \* the records written to tensor_can_fp
    abs_events,             \* the paired merge alone: the events left per stream
    merged,                 \* history: the events heapq.merge delivered, and whether
                            \* heapq_merge_generator_from yielded them
    emitted,                \* history: the yields of heapq_merge_generator_from
    emit_windows,           \* history: the keys of the two windows at each yield
    stored                  \* history: per stream, the positions ever stored

vars == <<cfg, last_pos, rows_read, gen_pc, candidate_pos_list, current_pos_index,
          pileup_dict, hap_dict, haplotag_dict, heap, awaiting,
          normal_candidates_set, skip_if_normal_empty, main_pc, cur_pos, error,
          records, abs_events, merged, emitted, emit_windows, stored>>

gen_vars == <<last_pos, rows_read, gen_pc, candidate_pos_list, current_pos_index,
              pileup_dict, hap_dict, stored>>

EmptyItem == [tag |-> "empty", pos |-> 0]
DoneItem == [tag |-> "done", pos |-> 0]
Item(pos) == [tag |-> "item", pos |-> pos]

Init ==
    /\ cfg \in Configs
    /\ last_pos = [s \in Samples |-> 0]
    /\ rows_read = [s \in Samples |-> 0]
    /\ gen_pc = [s \in Samples |-> "loop"]
    /\ candidate_pos_list = [s \in Samples |-> SortedSeq(CandidatesPosSet(cfg))]
    /\ current_pos_index = [s \in Samples |-> 0]
    /\ pileup_dict = [s \in Samples |-> <<>>]
    /\ hap_dict = [s \in Samples |-> <<>>]
    /\ haplotag_dict = <<>>
    /\ heap = [s \in Samples |-> EmptyItem]
    /\ awaiting = "normal"
    /\ normal_candidates_set = {}
    /\ skip_if_normal_empty = TRUE
    /\ main_pc = "merge"
    /\ cur_pos = 0
    /\ error = "none"
    /\ records = <<>>
    /\ abs_events = [s \in Samples |-> <<>>]
    /\ merged = <<>>
    /\ emitted = <<>>
    /\ emit_windows = <<>>
    /\ stored = [s \in Samples |-> {}]

(***************************************************************************)
(* samtools_pileup_generator_from: one pileup row.                         *)
(***************************************************************************)
Position(pos, ref_base, read_name_list, base_list, raw_base_quality, raw_mapping_quality, af, depth) ==
    [pos |-> pos, ref_base |-> ref_base, read_name_list |-> read_name_list,
     base_list |-> base_list, raw_base_quality |-> raw_base_quality,
     raw_mapping_quality |-> raw_mapping_quality, af |-> af, depth |-> depth,
     update_info |-> FALSE, read_info |-> <<>>]

RECURSIVE UpdateHapDictLastWins(_, _, _, _)
\* every tag 1 or 2 of the row is written, whatever hap_dict holds
UpdateHapDictLastWins(d, read_name_list, phasing_info, hap_idx) ==
    IF hap_idx > Len(phasing_info) THEN d
    ELSE UpdateHapDictLastWins(
            IF phasing_info[hap_idx] \in {"1", "2"}
            THEN (read_name_list[hap_idx] :> DigitVal(phasing_info[hap_idx])) @@ d
            ELSE d,
            read_name_list, phasing_info, hap_idx + 1)

\* the haplotypes a row adds to hap_dict: a read not yet in it and tagged 1 or 2
RECURSIVE UpdateHapDict(_, _, _, _)
UpdateHapDict(d, read_name_list, phasing_info, hap_idx) ==
    IF hap_idx > Len(phasing_info) THEN d
    ELSE UpdateHapDict(
            IF phasing_info[hap_idx] \in {"1", "2"} /\ read_name_list[hap_idx] \notin DOMAIN d
            THEN (read_name_list[hap_idx] :> DigitVal(phasing_info[hap_idx])) @@ d
            ELSE d,
            read_name_list, phasing_info, hap_idx + 1)

\* a gate on the allele frequency alone
IsCandidateAnyDepth(c, pos, reference_base, decoded) ==
    ~c.vcf_given /\ ~HasPileupCandidates(c) /\ decoded.pass_af

\* a gate on the allele frequency and the depth that a known VCF leaves on
IsCandidateWithKnownVcf(c, pos, reference_base, decoded) ==
    \/ /\ ~HasPileupCandidates(c)
       /\ decoded.pass_af /\ decoded.depth >= min_coverage
    \/ /\ c.vcf_given
       /\ ~HasPileupCandidates(c)
       /\ pos \in c.known_variants

\* whether the row is appended to candidate_pos_list
IsCandidate(c, pos, reference_base, decoded) ==
    \/ /\ ~c.vcf_given
       /\ ~HasPileupCandidates(c)
       /\ reference_base \in {"A", "C", "G", "T"}
       /\ decoded.pass_af /\ decoded.depth >= min_coverage
    \/ /\ c.vcf_given
       /\ ~HasPileupCandidates(c)
       /\ pos \in c.known_variants

\* a yield test on the flanking distance alone
YieldsAtFlanking(pos, cands, idx) ==
    idx < Len(cands) /\ pos - cands[idx + 1] > flanking_base_num + extend_bp

\* the yield test after a row is stored
YieldsAt(pos, cands, idx) ==
    idx < Len(cands) /\ pos - cands[idx + 1] > extend_bp_distance

\* every entry before the candidate
TrimmedKeysBelow(keys, candidate) == {k \in keys : candidate - k > 0}

\* the entries the loop over sorted(pileup_dict.keys()) deletes after a yield
TrimmedKeys(keys, candidate) == {k \in keys : candidate - k > extend_bp_distance}

\* del pileup_dict[pre_pos] for the trimmed keys
Trim(pd, candidate) ==
    [k \in (DOMAIN pd) \ TrimmedKeys(DOMAIN pd, candidate) |-> pd[k]]

\* the hap_dict after the row: the phasing column is read when phasing is on
HapDictAfter(c, row, hd) ==
    IF c.phase /\ Len(row.names) = Len(row.hp)
    THEN UpdateHapDict(hd, row.names, row.hp, 1) ELSE hd

\* candidate_pos_list after the row
CandsAfter(c, pos, reference_base, decoded, cands) ==
    IF IsCandidate(c, pos, reference_base, decoded) THEN Append(cands, pos) ELSE cands

\* the row is stored and the yield test runs
StoreRow(c, pos, row, cands1, idx, pd, hd, reference_base, decoded) ==
    [outcome |-> IF YieldsAt(pos, cands1, idx) THEN "yield" ELSE "continue",
     cands |-> cands1,
     pd |-> (pos :> Position(pos, reference_base, row.names, decoded.base_list,
                             row.bq, row.mq, decoded.af, decoded.depth)) @@ pd,
     hd |-> HapDictAfter(c, row, hd),
     stored |-> TRUE]

\* the row is left without being stored
SkipRow(outcome, cands, pd, hd) ==
    [outcome |-> outcome, cands |-> cands, pd |-> pd, hd |-> hd, stored |-> FALSE]

\* the body of the loop once the row is decoded
ProcessDecoded(c, pos, row, cands, idx, pd, hd, reference_base, decoded) ==
    IF decoded.raised THEN SkipRow("raised", cands, pd, hd)
    ELSE IF c.phase /\ Len(row.names) # Len(row.hp) THEN SkipRow("continue", cands, pd, hd)
    ELSE IF Len(row.names) # Len(decoded.base_list)
    THEN SkipRow("continue", cands, pd, HapDictAfter(c, row, hd))
    ELSE StoreRow(c, pos, row, CandsAfter(c, pos, reference_base, decoded, cands),
                  idx, pd, hd, reference_base, decoded)

\* pass_extend_bed: no --extend_bed is given
pass_extend_bed == TRUE

\* pass_ctg_range
PassCtgRange(c, pos) == CtgStart(c) = 0 \/ (pos >= CtgStart(c) /\ pos <= CtgEnd(c))

\* an N of the reference read as A
ReferenceBaseNAsA(pos) ==
    IF Upper(reference_sequence[pos - reference_start + 1]) = "N" THEN "A"
    ELSE Upper(reference_sequence[pos - reference_start + 1])

\* reference_sequence[pos - reference_start].upper()
ReferenceBase(pos) == Upper(reference_sequence[pos - reference_start + 1])

\* the body of `for row in samtools_mpileup_process.stdout` for one row:
\* outcome "continue" (next row), "yield" or "raised" (IndexError)
ProcessRow(c, is_tumor, pos, row, cands, idx, pd, hd) ==
    IF ~HasPileupCandidates(c) /\ ~pass_extend_bed /\ PassCtgRange(c, pos)
    THEN SkipRow("continue", cands, pd, hd)
    ELSE IF ReferenceBase(pos) \notin {"A", "C", "G", "T"}
    THEN SkipRow("continue", cands, pd, hd)
    ELSE ProcessDecoded(c, pos, row, cands, idx, pd, hd, ReferenceBase(pos),
            decode_pileup_bases(pos, row.bases, ReferenceBase(pos),
                                HasPileupCandidates(c), CandidatesTypeDict(c), is_tumor))

(***************************************************************************)
(* The generators as heapq.merge drives them.  heapq.merge calls next() on *)
(* the normal generator, then on the tumor generator, and from then on on  *)
(* the generator whose item it handed out last.                            *)
(***************************************************************************)
Other(s) == IF s = "normal" THEN "tumor" ELSE "normal"

\* the generator s hands an item (or its end) to heapq.merge
Deliver(s, item) ==
    /\ heap' = [heap EXCEPT ![s] = item]
    /\ awaiting' = IF heap[Other(s)].tag = "empty" THEN Other(s) ELSE "none"

\* an IndexError leaves the generator, heapq.merge and create_pair_tensor
Raise(s, what) ==
    /\ gen_pc' = [gen_pc EXCEPT ![s] = "raised"]
    /\ awaiting' = "none"
    /\ main_pc' = "raised"
    /\ error' = what

\* the positions a pileup stream may hold: samtools mpileup runs with -r on
\* the extended range when ctg_start and ctg_end are set, and with -l on the
\* candidate BED when there is one
StreamPositions(c) ==
    {p \in (IF c.covered = {} THEN 1..MaxPos ELSE c.covered) :
        /\ c.candidates_bed # {} =>
                \E row \in c.candidates_bed : row[1] < p /\ p <= row[2]
        /\ IsCtgRangeGiven(c) =>
                (p >= CtgStart(c) - no_of_positions /\ p <= CtgEnd(c) + no_of_positions)}

\* the effect of one row on the generator s, r being what ProcessRow returns
TakeRow(s, pos, r) ==
    /\ last_pos' = [last_pos EXCEPT ![s] = pos]
    /\ rows_read' = [rows_read EXCEPT ![s] = @ + 1]
    /\ candidate_pos_list' = [candidate_pos_list EXCEPT ![s] = r.cands]
    /\ pileup_dict' = [pileup_dict EXCEPT ![s] = r.pd]
    /\ hap_dict' = [hap_dict EXCEPT ![s] = r.hd]
    /\ stored' = [stored EXCEPT ![s] = IF r.stored THEN @ \cup {pos} ELSE @]
    /\ IF r.outcome = "raised"
       THEN /\ Raise(s, "IndexError")
            /\ UNCHANGED heap
       ELSE IF r.outcome = "yield"
       THEN /\ gen_pc' = [gen_pc EXCEPT ![s] = "yield_loop"]
            /\ Deliver(s, Item(r.cands[current_pos_index[s] + 1]))
            /\ UNCHANGED <<main_pc, error>>
       ELSE UNCHANGED <<gen_pc, heap, awaiting, main_pc, error>>

\* the generator reads the next row of its stream
ReadRow(s) ==
    /\ awaiting = s
    /\ gen_pc[s] = "loop"
    /\ rows_read[s] < (IF IsTumor(s) THEN MaxTumorRows ELSE MaxNormalRows) + cfg.extra_rows
    /\ \E pos \in {p \in StreamPositions(cfg) : p > last_pos[s]}, row \in cfg.rows[s] :
        TakeRow(s, pos, ProcessRow(cfg, IsTumor(s), pos, row, candidate_pos_list[s],
                                   current_pos_index[s], pileup_dict[s], hap_dict[s]))
    /\ UNCHANGED <<cfg, current_pos_index, haplotag_dict, normal_candidates_set,
                   skip_if_normal_empty, cur_pos, records, abs_events, merged, emitted, emit_windows>>

\* the stream ends: the generator leaves the loop over the rows
ReadEOF(s) ==
    /\ awaiting = s
    /\ gen_pc[s] = "loop"
    /\ gen_pc' = [gen_pc EXCEPT ![s] = "flush"]
    /\ UNCHANGED <<cfg, last_pos, rows_read, candidate_pos_list, current_pos_index,
                   pileup_dict, hap_dict, haplotag_dict, heap, awaiting,
                   normal_candidates_set, skip_if_normal_empty, main_pc, cur_pos, error,
                   records, abs_events, merged, emitted, emit_windows, stored>>

\* a generator that ends with the stream, leaving its pending candidates
FlushNothing(s) ==
    /\ awaiting = s
    /\ gen_pc[s] = "flush"
    /\ gen_pc' = [gen_pc EXCEPT ![s] = "done"]
    /\ Deliver(s, DoneItem)
    /\ UNCHANGED <<cfg, last_pos, rows_read, candidate_pos_list, current_pos_index,
                   pileup_dict, hap_dict, haplotag_dict, normal_candidates_set,
                   skip_if_normal_empty, main_pc, cur_pos, error, records, abs_events,
                   merged, emitted, emit_windows, stored>>

\* `while current_pos_index != len(candidate_pos_list)`: the next pending
\* candidate is yielded, or the generator ends
Flush(s) ==
    /\ awaiting = s
    /\ gen_pc[s] = "flush"
    /\ IF current_pos_index[s] # Len(candidate_pos_list[s])
       THEN /\ gen_pc' = [gen_pc EXCEPT ![s] = "yield_flush"]
            /\ Deliver(s, Item(candidate_pos_list[s][current_pos_index[s] + 1]))
       ELSE /\ gen_pc' = [gen_pc EXCEPT ![s] = "done"]
            /\ Deliver(s, DoneItem)
    /\ UNCHANGED <<cfg, last_pos, rows_read, candidate_pos_list, current_pos_index,
                   pileup_dict, hap_dict, haplotag_dict, normal_candidates_set,
                   skip_if_normal_empty, main_pc, cur_pos, error, records, abs_events,
                   merged, emitted, emit_windows, stored>>

\* next() on a generator suspended at a yield: the window is trimmed and the
\* cursor advances
Resume(s) ==
    /\ awaiting = s
    /\ gen_pc[s] \in {"yield_loop", "yield_flush"}
    /\ pileup_dict' = [pileup_dict EXCEPT ![s] =
            Trim(@, candidate_pos_list[s][current_pos_index[s] + 1])]
    /\ current_pos_index' = [current_pos_index EXCEPT ![s] = @ + 1]
    /\ gen_pc' = [gen_pc EXCEPT ![s] = IF @ = "yield_loop" THEN "loop" ELSE "flush"]
    /\ UNCHANGED <<cfg, last_pos, rows_read, candidate_pos_list, hap_dict, haplotag_dict,
                   heap, awaiting, normal_candidates_set, skip_if_normal_empty, main_pc,
                   cur_pos, error, records, abs_events, merged, emitted, emit_windows, stored>>

(***************************************************************************)
(* heapq.merge and heapq_merge_generator_from.                             *)
(***************************************************************************)
\* a merge that hands out the tumor item on a tie
MergeSourceTumorOnTie(h) ==
    IF h["normal"].tag = "item"
       /\ (h["tumor"].tag # "item" \/ h["normal"].pos < h["tumor"].pos)
    THEN "normal" ELSE "tumor"

\* the generator whose item heapq.merge hands out next: the smaller
\* (pos, is_tumor), so the normal item on a tie
MergeSource(h) ==
    IF h["normal"].tag = "item"
       /\ (h["tumor"].tag # "item" \/ h["normal"].pos <= h["tumor"].pos)
    THEN "normal" ELSE "tumor"

\* every tumor event is yielded
YieldsTumorAlways(pos, normal_set, skip) == TRUE

\* whether heapq_merge_generator_from yields a tumor event
YieldsTumor(pos, normal_set, skip) == pos \in normal_set \/ ~skip

\* the set is left as it is
AfterYieldKeeps(normal_set, pos) == normal_set

\* normal_candidates_set.discard(pos), when the caller asks for the next position
AfterYield(normal_set, pos) == normal_set \ {pos}

\* heapq_merge_generator_from takes the next event of heapq.merge
MergeNext ==
    /\ awaiting = "none"
    /\ main_pc = "merge"
    /\ IF heap["normal"].tag = "done" /\ heap["tumor"].tag = "done"
       THEN /\ main_pc' = "done"
            /\ UNCHANGED <<heap, awaiting, normal_candidates_set, cur_pos, merged, emitted, emit_windows>>
       ELSE LET src == MergeSource(heap)
                pos == heap[src].pos
            IN  /\ heap' = [heap EXCEPT ![src] = EmptyItem]
                /\ merged' = Append(merged,
                        [pos |-> pos, is_tumor |-> IsTumor(src),
                         yielded |-> IsTumor(src)
                            /\ YieldsTumor(pos, normal_candidates_set, skip_if_normal_empty)])
                /\ IF ~IsTumor(src)
                   THEN /\ normal_candidates_set' = normal_candidates_set \cup {pos}
                        /\ awaiting' = "normal"
                        /\ UNCHANGED <<main_pc, cur_pos, emitted, emit_windows>>
                   ELSE IF YieldsTumor(pos, normal_candidates_set, skip_if_normal_empty)
                   THEN /\ main_pc' = "emit"
                        /\ cur_pos' = pos
                        /\ emitted' = Append(emitted, pos)
                        /\ emit_windows' = Append(emit_windows,
                                [s \in Samples |-> DOMAIN pileup_dict[s]])
                        /\ UNCHANGED <<awaiting, normal_candidates_set>>
                   ELSE /\ awaiting' = "tumor"
                        /\ UNCHANGED <<main_pc, cur_pos, emitted, emit_windows, normal_candidates_set>>
    /\ UNCHANGED <<cfg, gen_vars, haplotag_dict, skip_if_normal_empty, error, records,
                   abs_events>>

(***************************************************************************)
(* create_pair_tensor: the body of the loop over the merged positions.     *)
(***************************************************************************)
\* reference_sequence[a:b] of Python for b > 0: a negative a counts from the
\* end of the string
PySlice(seq, a, b) == Slice(seq, IF a < 0 THEN Len(seq) + a ELSE a, b)

\* ref_seq, the reference bases of the window of pos
RefSeq(pos) ==
    UpperSeq(PySlice(reference_sequence, pos - reference_start - flanking_base_num,
                     pos - reference_start + flanking_base_num + 1))

\* every record is written with the type unknown
VariantTypeUnknown(c, pos) == "unknown"

VariantType(c, pos) ==
    IF pos \in DOMAIN CandidatesTypeDict(c) THEN CandidatesTypeDict(c)[pos] ELSE "unknown"

\* what the two passes of the loop over (normal, tumor) leave
PairOf(n_sorted, n_tensor, t_sorted, t_tensor) ==
    [key_error |-> n_tensor.none \/ t_tensor.none,
     normal_tensor |-> n_tensor.tensor,
     tumor_tensor |-> t_tensor.tensor,
     normal_alt_info |-> n_tensor.alt_info,
     tumor_alt_info |-> t_tensor.alt_info,
     pileup_dict |-> [s \in Samples |->
                        IF s = "normal" THEN n_tensor.pileup_dict
                        ELSE t_tensor.pileup_dict],
     hap_dict |-> [s \in Samples |->
                        IF s = "normal" THEN n_sorted.hap_dict ELSE t_sorted.hap_dict],
     haplotag_dict |-> t_sorted.haplotag_dict]

\* the tumor pass, after its read ordering
TumorPass(c, pos, pds, n_sorted, n_tensor, t_sorted) ==
    PairOf(n_sorted, n_tensor, t_sorted,
           generate_tensor(pos, t_sorted.sorted_read_name_list, pds["tumor"],
                           RefSeq(pos), reference_sequence, reference_start,
                           c.confident_bed, TRUE, t_sorted.hap_dict))

\* the normal pass, after its read ordering, then the tumor pass
NormalPass(c, pos, pds, hds, n_sorted) ==
    TumorPass(c, pos, pds, n_sorted,
              generate_tensor(pos, n_sorted.sorted_read_name_list, pds["normal"],
                              RefSeq(pos), reference_sequence, reference_start,
                              c.confident_bed, FALSE, n_sorted.hap_dict),
              sorted_by_hap_read_name(pos, n_sorted.haplotag_dict, pds["tumor"],
                                      hds["tumor"], tumor_matrix_depth, tensor_sample_mode))

\* the two passes of the loop over (normal, tumor): read ordering, then the
\* tensor; the haplotype dicts and the windows as the passes leave them
BuildPair(c, pos, pds, hds, htd) ==
    NormalPass(c, pos, pds, hds,
               sorted_by_hap_read_name(pos, htd, pds["normal"], hds["normal"],
                                       normal_matrix_depth, tensor_sample_mode))

\* the caller of heapq_merge_generator_from asks for the next position
NextPosition(pos) ==
    /\ main_pc' = "merge"
    /\ awaiting' = "tumor"
    /\ normal_candidates_set' = AfterYield(normal_candidates_set, pos)

\* the body of the loop for a position both windows hold, b being what the
\* two passes leave
WriteRecord(pos, b) ==
    /\ pileup_dict' = b.pileup_dict
    /\ hap_dict' = b.hap_dict
    /\ haplotag_dict' = b.haplotag_dict
    /\ IF b.key_error
       THEN /\ main_pc' = "raised"
            /\ error' = "KeyError"
            /\ UNCHANGED <<awaiting, normal_candidates_set, records>>
       ELSE /\ records' = Append(records,
                        [pos |-> pos, ref_seq |-> RefSeq(pos),
                         normal_tensor |-> b.normal_tensor,
                         normal_alt_info |-> b.normal_alt_info,
                         tumor_tensor |-> b.tumor_tensor,
                         tumor_alt_info |-> b.tumor_alt_info,
                         variant_type |-> VariantType(cfg, pos)])
            /\ NextPosition(pos)
            /\ UNCHANGED error

\* ref_seq[flanking_base_num] raises IndexError in generate_tensor for the
\* normal sample, after the read ordering of that sample; n_sorted is what the
\* read ordering leaves
RefSeqRaises(n_sorted) ==
    /\ main_pc' = "raised"
    /\ error' = "IndexError"
    /\ hap_dict' = [hap_dict EXCEPT !["normal"] = n_sorted.hap_dict]
    /\ haplotag_dict' = n_sorted.haplotag_dict
    /\ UNCHANGED <<pileup_dict, awaiting, normal_candidates_set, records>>

\* one position yielded by heapq_merge_generator_from: skipped when a window
\* lacks it, else the two tensors are built and the record is written;
\* ref_seq is too short when the window starts before reference_start;
\* tensor_infos_dict['normal'] raises KeyError when generate_tensor returned
\* (None, None)
EmitTensor ==
    /\ main_pc = "emit"
    /\ IF cur_pos \notin DOMAIN pileup_dict["normal"] \/ cur_pos \notin DOMAIN pileup_dict["tumor"]
       THEN /\ NextPosition(cur_pos)
            /\ UNCHANGED <<pileup_dict, hap_dict, haplotag_dict, records, error>>
       ELSE IF Len(RefSeq(cur_pos)) <= flanking_base_num
       THEN RefSeqRaises(sorted_by_hap_read_name(cur_pos, haplotag_dict, pileup_dict["normal"],
                                                 hap_dict["normal"], normal_matrix_depth,
                                                 tensor_sample_mode))
       ELSE WriteRecord(cur_pos, BuildPair(cfg, cur_pos, pileup_dict, hap_dict, haplotag_dict))
    /\ UNCHANGED <<cfg, last_pos, rows_read, gen_pc, candidate_pos_list, current_pos_index,
                   heap, skip_if_normal_empty, cur_pos, abs_events, merged, emitted, emit_windows, stored>>

Next ==
    \/ \E s \in Samples : ReadRow(s)
    \/ \E s \in Samples : ReadEOF(s)
    \/ \E s \in Samples : Flush(s)
    \/ \E s \in Samples : Resume(s)
    \/ MergeNext
    \/ EmitTensor

Spec == Init /\ [][Next]_vars

(***************************************************************************)
(* The paired merge alone: heapq_merge_generator_from over two sorted      *)
(* streams of events, for both values of skip_if_normal_empty.             *)
(***************************************************************************)
SortedEventSeqs ==
    {q \in UNION {[1..n -> 1..MaxEventPos] : n \in 0..MaxEvents} :
        \A i \in 1..Len(q) : \A j \in 1..Len(q) : i <= j => q[i] <= q[j]}

InitMerge ==
    /\ cfg = CHOOSE c \in Configs : c.name = "af"
    /\ last_pos = [s \in Samples |-> 0]
    /\ rows_read = [s \in Samples |-> 0]
    /\ gen_pc = [s \in Samples |-> "loop"]
    /\ candidate_pos_list = [s \in Samples |-> <<>>]
    /\ current_pos_index = [s \in Samples |-> 0]
    /\ pileup_dict = [s \in Samples |-> <<>>]
    /\ hap_dict = [s \in Samples |-> <<>>]
    /\ haplotag_dict = <<>>
    /\ heap = [s \in Samples |-> EmptyItem]
    /\ awaiting = "normal"
    /\ normal_candidates_set = {}
    /\ skip_if_normal_empty \in BOOLEAN
    /\ main_pc = "merge"
    /\ cur_pos = 0
    /\ error = "none"
    /\ records = <<>>
    /\ abs_events \in [Samples -> SortedEventSeqs]
    /\ merged = <<>>
    /\ emitted = <<>>
    /\ emit_windows = <<>>
    /\ stored = [s \in Samples |-> {}]

\* next() on a stream of events
NextEvent(s) ==
    /\ awaiting = s
    /\ IF abs_events[s] # <<>>
       THEN /\ Deliver(s, Item(Head(abs_events[s])))
            /\ abs_events' = [abs_events EXCEPT ![s] = Tail(@)]
       ELSE /\ Deliver(s, DoneItem)
            /\ UNCHANGED abs_events
    /\ UNCHANGED <<cfg, gen_vars, haplotag_dict, normal_candidates_set,
                   skip_if_normal_empty, main_pc, cur_pos, error, records, merged, emitted, emit_windows>>

\* the caller of heapq_merge_generator_from asks for the next position
TakeEmitted ==
    /\ main_pc = "emit"
    /\ main_pc' = "merge"
    /\ awaiting' = "tumor"
    /\ normal_candidates_set' = AfterYield(normal_candidates_set, cur_pos)
    /\ UNCHANGED <<cfg, gen_vars, haplotag_dict, heap, skip_if_normal_empty, cur_pos, error,
                   records, abs_events, merged, emitted, emit_windows>>

NextMerge ==
    \/ \E s \in Samples : NextEvent(s)
    \/ MergeNext
    \/ TakeEmitted

SpecMerge == InitMerge /\ [][NextMerge]_vars

(***************************************************************************)
(* The two generators under heapq_merge_generator_from, with a caller that *)
(* takes every position it yields and asks for the next one.  The          *)
(* interpreter runs a generator, the merge and the caller whenever they    *)
(* have a step to take, and a pileup stream ends after finitely many rows. *)
(***************************************************************************)
NextYield ==
    \/ \E s \in Samples : ReadRow(s)
    \/ \E s \in Samples : ReadEOF(s)
    \/ \E s \in Samples : Flush(s)
    \/ \E s \in Samples : Resume(s)
    \/ MergeNext
    \/ TakeEmitted

SpecYield ==
    /\ Init
    /\ [][NextYield]_vars
    /\ WF_vars(MergeNext)
    /\ WF_vars(TakeEmitted)
    /\ \A s \in Samples : WF_vars(ReadEOF(s)) /\ WF_vars(Flush(s)) /\ WF_vars(Resume(s))

(***************************************************************************)
(* sorted_by_hap_read_name alone: repeated calls on one tumor window, for   *)
(* every window of read-name lists, every haplotype map and every max_depth *)
(* within the bounds.  records holds what the calls returned.               *)
(***************************************************************************)
MaxSortCalls == 3
MaxSortDepth == 3

\* the read-name lists a row of the window may hold
SortNameLists == {<<"r1", "r2">>, <<"r3", "r1">>, <<"r2", "r4", "r3">>}

\* a stored row with the given read names
SortPosition(p, names) ==
    Position(p, "A", names, [i \in 1..Len(names) |-> [base |-> "A", indel |-> <<>>]],
             [i \in 1..Len(names) |-> 73], [i \in 1..Len(names) |-> 93], 0, Len(names))

\* the windows: any rows at the positions 1..no_of_positions
SortWindows ==
    {[p \in DOMAIN f |-> SortPosition(p, f[p])] :
        f \in UNION {[D -> SortNameLists] : D \in SUBSET (1..no_of_positions)}}

\* the haplotypes the HP tags of the pileup may have given
SortHapDicts == UNION {[D -> {1, 2}] : D \in SUBSET {"r1", "r3"}}

InitSort ==
    /\ cfg = CHOOSE c \in Configs : c.name = "af"
    /\ last_pos = [s \in Samples |-> 0]
    /\ rows_read = [s \in Samples |-> 0]
    /\ gen_pc = [s \in Samples |-> "loop"]
    /\ candidate_pos_list = [s \in Samples |-> <<>>]
    /\ current_pos_index = [s \in Samples |-> 0]
    /\ \E w \in SortWindows :
            pileup_dict = [s \in Samples |-> IF IsTumor(s) THEN w ELSE <<>>]
    /\ \E hd \in SortHapDicts :
            hap_dict = [s \in Samples |-> IF IsTumor(s) THEN hd ELSE <<>>]
    /\ haplotag_dict = <<>>
    /\ heap = [s \in Samples |-> EmptyItem]
    /\ awaiting = "none"
    /\ normal_candidates_set = {}
    /\ skip_if_normal_empty = TRUE
    /\ main_pc = "emit"
    /\ cur_pos = 1 + flanking_base_num
    /\ error = "none"
    /\ records = <<>>
    /\ abs_events = [s \in Samples |-> <<>>]
    /\ merged = <<>>
    /\ emitted = <<>>
    /\ emit_windows = <<>>
    /\ stored = [s \in Samples |-> {}]

\* what a call of sorted_by_hap_read_name leaves: the list it returns and the
\* names the lookups insert in the two defaultdicts
SortReturns(max_depth, r) ==
    /\ records' = Append(records, [max_depth |-> max_depth,
                                   sorted_read_name_list |-> r.sorted_read_name_list])
    /\ haplotag_dict' = r.haplotag_dict
    /\ hap_dict' = [hap_dict EXCEPT !["tumor"] = r.hap_dict]

\* one call of sorted_by_hap_read_name on the tumor window
CallSort(max_depth) ==
    /\ Len(records) < MaxSortCalls
    /\ SortReturns(max_depth,
                   sorted_by_hap_read_name(cur_pos, haplotag_dict, pileup_dict["tumor"],
                                           hap_dict["tumor"], max_depth, tensor_sample_mode))
    /\ UNCHANGED <<cfg, last_pos, rows_read, gen_pc, candidate_pos_list, current_pos_index,
                   pileup_dict, heap, awaiting, normal_candidates_set, skip_if_normal_empty,
                   main_pc, cur_pos, error, abs_events, merged, emitted, emit_windows, stored>>

NextSort == \E max_depth \in 1..MaxSortDepth : CallSort(max_depth)

SpecSort == InitSort /\ [][NextSort]_vars

(***************************************************************************)
(* The chunks of a contig: runs of create_pair_tensor with --chunk_id       *)
(* 1..chunk_num on one contig, for every contig length and chunk_num within *)
(* the bounds.  records holds the ctg_start and ctg_end each run computes.  *)
(***************************************************************************)
MaxContigLength == 8
MaxChunkNum == 4

InitChunk ==
    /\ cfg \in {[name |-> "chunks", contig_length |-> L, chunk_num |-> n] :
                    L \in 1..MaxContigLength, n \in 1..MaxChunkNum}
    /\ last_pos = [s \in Samples |-> 0]
    /\ rows_read = [s \in Samples |-> 0]
    /\ gen_pc = [s \in Samples |-> "loop"]
    /\ candidate_pos_list = [s \in Samples |-> <<>>]
    /\ current_pos_index = [s \in Samples |-> 0]
    /\ pileup_dict = [s \in Samples |-> <<>>]
    /\ hap_dict = [s \in Samples |-> <<>>]
    /\ haplotag_dict = <<>>
    /\ heap = [s \in Samples |-> EmptyItem]
    /\ awaiting = "none"
    /\ normal_candidates_set = {}
    /\ skip_if_normal_empty = TRUE
    /\ main_pc = "start"
    /\ cur_pos = 0
    /\ error = "none"
    /\ records = <<>>
    /\ abs_events = [s \in Samples |-> <<>>]
    /\ merged = <<>>
    /\ emitted = <<>>
    /\ emit_windows = <<>>
    /\ stored = [s \in Samples |-> {}]

\* the run with --chunk_id id computes its contig range
RunChunk(id) ==
    /\ \A i \in 1..Len(records) : records[i].chunk_id # id
    /\ records' = Append(records,
            [chunk_id |-> id,
             ctg_start |-> ChunkStart(cfg.contig_length, cfg.chunk_num, id),
             ctg_end |-> ChunkEnd(cfg.contig_length, cfg.chunk_num, id)])
    /\ UNCHANGED <<cfg, gen_vars, haplotag_dict, heap, awaiting, normal_candidates_set,
                   skip_if_normal_empty, main_pc, cur_pos, error, abs_events, merged,
                   emitted, emit_windows>>

NextChunk == \E id \in 1..cfg.chunk_num : RunChunk(id)

SpecChunk == InitChunk /\ [][NextChunk]_vars

(***************************************************************************)
(* select_hetero_snp_for_phasing: one run over a normal and a tumor VCF,    *)
(* for every pair of files of at most MaxVcfRows rows drawn from the rows   *)
(* below.  records holds the lines written to the output file.              *)
(***************************************************************************)
MaxVcfRows == 2

\* a line of a VCF: the columns the selector reads (CHROM, POS, REF, ALT and
\* the genotype as their characters, QUAL) and the file it is a line of; a
\* header line has "#" as its first column
VcfRow(file, ctg, pos, ref, alt, qual, gt) ==
    [file |-> file, ctg |-> ctg, pos |-> pos, ref |-> ref, alt |-> alt,
     qual |-> qual, gt |-> gt]

NormalVcfRows ==
    { VcfRow("normal", "#", 0, <<>>, <<>>, 0, <<>>),
      VcfRow("normal", "chr1", 1, <<"A">>, <<"G">>, 30, <<"0", "/", "1">>),
      VcfRow("normal", "chr1", 2, <<"A">>, <<"G">>, 5, <<"1", "|", "0">>),
      VcfRow("normal", "chr1", 2, <<"A">>, <<"C">>, 30, <<"0", "/", "1">>),
      VcfRow("normal", "chr1", 1, <<"A", "T">>, <<"A">>, 30, <<"0", "/", "1">>),
      VcfRow("normal", "chr1", 2, <<"A">>, <<"G">>, 30, <<"1", "/", "1">>),
      VcfRow("normal", "chr2", 3, <<"A">>, <<"C">>, 30, <<"0", "/", "1">>) }

TumorVcfRows ==
    { VcfRow("tumor", "#", 0, <<>>, <<>>, 0, <<>>),
      VcfRow("tumor", "chr1", 1, <<"A">>, <<"G">>, 25, <<"0", "|", "1">>),
      VcfRow("tumor", "chr1", 2, <<"A">>, <<"T">>, 20, <<"0", "/", "1">>),
      VcfRow("tumor", "chr1", 2, <<"A">>, <<"G">>, 3, <<"1", "/", "0">>),
      VcfRow("tumor", "chr1", 3, <<"A">>, <<"C">>, 3, <<"0", "/", "1">>),
      VcfRow("tumor", "chr1", 3, <<"A">>, <<"C">>, 20, <<"1", "/", "0">>),
      VcfRow("tumor", "chr1", 1, <<"A">>, <<"G">>, 25, <<"1", "/", "1">>),
      VcfRow("tumor", "chr2", 1, <<"A">>, <<"G">>, 25, <<"0", "/", "1">>) }

\* columns[9].split(':')[0].replace('|', '/')
Genotype(gt) == [i \in 1..Len(gt) |-> IF gt[i] = "|" THEN "/" ELSE gt[i]]

\* the row is on the contig asked for, has a single-base REF and ALT and the
\* genotype 0/1 or 1/0
IsHeteroSnp(row, contig_name) ==
    /\ row.ctg # "#"
    /\ ~(contig_name # "" /\ contig_name # row.ctg)
    /\ Len(row.ref) = 1 /\ Len(row.alt) = 1
    /\ Genotype(row.gt) \in {<<"0", "/", "1">>, <<"1", "/", "0">>}

\* d[key] = val on an insertion-ordered dict, a sequence of [key, val]
DictSet(d, key, val) ==
    IF \E i \in 1..Len(d) : d[i].key = key
    THEN [i \in 1..Len(d) |-> IF d[i].key = key THEN [key |-> key, val |-> val] ELSE d[i]]
    ELSE Append(d, [key |-> key, val |-> val])

\* d[key], for a key of d
DictGet(d, key) == d[CHOOSE i \in 1..Len(d) : d[i].key = key].val

DictKeys(d) == {d[i].key : i \in 1..Len(d)}

RECURSIVE ReadNormalVcf(_, _, _, _)
\* the loop over the normal VCF: variant_dict, which holds the row of each
\* position (normal_qual_dict holds the QUAL of the same rows)
ReadNormalVcf(rows, i, contig_name, variant_dict) ==
    IF i > Len(rows) THEN variant_dict
    ELSE ReadNormalVcf(rows, i + 1, contig_name,
            IF IsHeteroSnp(rows[i], contig_name)
            THEN DictSet(variant_dict, rows[i].pos, rows[i])
            ELSE variant_dict)

\* a loop over the tumor VCF that keeps every heterozygous SNP row
TumorRowKeptAlways(row, variant_dict, min_qual) == TRUE

\* whether the loop over the tumor VCF keeps a heterozygous SNP row
TumorRowKept(row, variant_dict, min_qual) ==
    IF row.pos \notin DictKeys(variant_dict) THEN row.qual >= min_qual
    ELSE DictGet(variant_dict, row.pos).ref = row.ref
            /\ DictGet(variant_dict, row.pos).alt = row.alt

RECURSIVE ReadTumorVcf(_, _, _, _, _, _)
\* the loop over the tumor VCF: tumor_qual_dict (qual) and tumor_variant_dict
\* (kept), whose keys are intersect_pos_set
ReadTumorVcf(rows, i, contig_name, variant_dict, min_qual, t) ==
    IF i > Len(rows) THEN t
    ELSE ReadTumorVcf(rows, i + 1, contig_name, variant_dict, min_qual,
            IF ~IsHeteroSnp(rows[i], contig_name) THEN t
            ELSE [qual |-> DictSet(t.qual, rows[i].pos, rows[i].qual),
                  kept |-> IF TumorRowKept(rows[i], variant_dict, min_qual)
                           THEN DictSet(t.kept, rows[i].pos, rows[i])
                           ELSE t.kept])

RECURSIVE LowestKeys(_, _)
\* the keys of sorted(d.items(), key=lambda x: x[1])[:k]: the sort is stable
LowestKeys(d, k) ==
    IF k <= 0 \/ d = <<>> THEN {}
    ELSE LET m == CHOOSE i \in 1..Len(d) :
                    /\ \A j \in 1..Len(d) : d[i].val <= d[j].val
                    /\ \A j \in 1..(i - 1) : d[j].val # d[i].val
         IN  {d[m].key} \cup LowestKeys(SubSeq(d, 1, m - 1) \o SubSeq(d, m + 1, Len(d)), k - 1)

\* a low-quality set whose size is rounded up
LowQualSetRoundedUp(d, var_pct_full) ==
    LowestKeys(d, (var_pct_full[1] * Len(d) + var_pct_full[2] - 1) \div var_pct_full[2])

\* a low-quality set: the int(var_pct_full * len(d)) positions of lowest QUAL
LowQualSet(d, var_pct_full) ==
    LowestKeys(d, (var_pct_full[1] * Len(d)) \div var_pct_full[2])

\* normal_qual_dict, from the rows variant_dict holds
QualOf(variant_dict) ==
    [i \in 1..Len(variant_dict) |->
        [key |-> variant_dict[i].key, val |-> variant_dict[i].val.qual]]

\* the keys of pass_variant_dict
PassPositions(variant_dict, t, var_pct_full) ==
    DictKeys(t.kept) \ (LowQualSet(QualOf(variant_dict), var_pct_full)
                            \cup LowQualSet(t.qual, var_pct_full))

\* an output file with the passing positions in descending order
OutputLinesDescending(normal_vcf, t, pass) ==
    SelectSeq(normal_vcf, LAMBDA row : row.ctg = "#")
        \o [i \in 1..Cardinality(pass) |->
                DictGet(t.kept, SortedSeq(pass)[Cardinality(pass) + 1 - i])]

\* the lines of the output file: the header lines of the normal VCF, then the
\* kept tumor rows of the passing positions, sorted by position
OutputLines(normal_vcf, t, pass) ==
    SelectSeq(normal_vcf, LAMBDA row : row.ctg = "#")
        \o [i \in 1..Cardinality(pass) |-> DictGet(t.kept, SortedSeq(pass)[i])]

\* what the loop over the tumor VCF leaves, for the arguments a
TumorRead(a) ==
    ReadTumorVcf(a.tumor_vcf, 1, a.ctg_name,
                 ReadNormalVcf(a.normal_vcf, 1, a.ctg_name, <<>>),
                 a.min_qual, [qual |-> <<>>, kept |-> <<>>])

\* select_hetero_snp_for_phasing: the lines it writes
select_hetero_snp_for_phasing(a) ==
    OutputLines(a.normal_vcf, TumorRead(a),
                PassPositions(ReadNormalVcf(a.normal_vcf, 1, a.ctg_name, <<>>),
                              TumorRead(a), a.var_pct_full))

\* the files of at most MaxVcfRows lines
VcfFiles(rows) == UNION {[1..n -> rows] : n \in 0..MaxVcfRows}

InitSelect ==
    /\ cfg \in {[name |-> "select", normal_vcf |-> nf, tumor_vcf |-> tf,
                 var_pct_full |-> pct, ctg_name |-> "chr1", min_qual |-> 10] :
                    nf \in VcfFiles(NormalVcfRows), tf \in VcfFiles(TumorVcfRows),
                    pct \in {<<0, 1>>, <<1, 2>>}}
    /\ last_pos = [s \in Samples |-> 0]
    /\ rows_read = [s \in Samples |-> 0]
    /\ gen_pc = [s \in Samples |-> "loop"]
    /\ candidate_pos_list = [s \in Samples |-> <<>>]
    /\ current_pos_index = [s \in Samples |-> 0]
    /\ pileup_dict = [s \in Samples |-> <<>>]
    /\ hap_dict = [s \in Samples |-> <<>>]
    /\ haplotag_dict = <<>>
    /\ heap = [s \in Samples |-> EmptyItem]
    /\ awaiting = "none"
    /\ normal_candidates_set = {}
    /\ skip_if_normal_empty = TRUE
    /\ main_pc = "start"
    /\ cur_pos = 0
    /\ error = "none"
    /\ records = <<>>
    /\ abs_events = [s \in Samples |-> <<>>]
    /\ merged = <<>>
    /\ emitted = <<>>
    /\ emit_windows = <<>>
    /\ stored = [s \in Samples |-> {}]

\* the run of select_hetero_snp_for_phasing
Select ==
    /\ main_pc = "start"
    /\ main_pc' = "done"
    /\ records' = select_hetero_snp_for_phasing(cfg)
    /\ UNCHANGED <<cfg, gen_vars, haplotag_dict, heap, awaiting, normal_candidates_set,
                   skip_if_normal_empty, cur_pos, error, abs_events, merged, emitted,
                   emit_windows>>

NextSelect == Select

SpecSelect == InitSelect /\ [][NextSelect]_vars

(***************************************************************************)
(* decode_pileup_bases alone: one call on the bases column of a pileup row  *)
(* of at most MaxDecodeReads reads, written as samtools writes it, over a   *)
(* reference base A or T, with no candidate BED.  records holds what the    *)
(* call returned.                                                           *)
(***************************************************************************)
MaxDecodeReads == 3

\* what samtools writes for one read of a row: '^' and the mapping quality
\* character when the read starts here, the base, the sign, length and
\* sequence of an indel that follows, '$' when the read ends here
PileupRead(head, base, sign, seq, tail) ==
    [head |-> head, base |-> base, sign |-> sign, seq |-> seq, tail |-> tail]

PileupReads ==
    { PileupRead(<<>>, "A", "", <<>>, <<>>),
      PileupRead(<<>>, "a", "", <<>>, <<>>),
      PileupRead(<<>>, "T", "", <<>>, <<>>),
      PileupRead(<<>>, "t", "", <<>>, <<"$">>),
      PileupRead(<<"^", "+">>, "A", "", <<>>, <<>>),
      PileupRead(<<"^", "A">>, "T", "", <<>>, <<>>),
      PileupRead(<<"^", "-">>, "c", "", <<>>, <<"$">>),
      PileupRead(<<"^", "*">>, "G", "", <<>>, <<>>),
      PileupRead(<<"^", "5">>, "A", "+", <<"G">>, <<>>),
      PileupRead(<<>>, "T", "+", <<"C">>, <<>>),
      PileupRead(<<>>, "A", "-", <<"C", "A">>, <<>>),
      PileupRead(<<>>, "a", "+", <<"a", "c", "g", "t", "a", "c", "g", "t", "a", "c">>, <<"$">>),
      PileupRead(<<>>, "*", "", <<>>, <<>>),
      PileupRead(<<>>, "#", "", <<>>, <<>>),
      PileupRead(<<>>, "N", "", <<>>, <<>>),
      PileupRead(<<>>, "N", "+", <<"C">>, <<>>),
      PileupRead(<<>>, ".", "", <<>>, <<>>),
      PileupRead(<<>>, ",", "", <<>>, <<>>) }

\* the characters samtools writes for one read
PileupText(read) ==
    read.head \o <<read.base>>
        \o (IF read.sign = "" THEN <<>> ELSE <<read.sign>> \o IntStr(Len(read.seq)) \o read.seq)
        \o read.tail

RECURSIVE PileupBases(_)
\* the bases column of a row: the texts of its reads, one after the other
PileupBases(reads) ==
    IF reads = <<>> THEN <<>> ELSE PileupText(Head(reads)) \o PileupBases(Tail(reads))

InitDecode ==
    /\ cfg \in {[name |-> "decode", reads |-> reads, reference_base |-> b] :
                    reads \in UNION {[1..n -> PileupReads] : n \in 0..MaxDecodeReads},
                    b \in {"A", "T"}}
    /\ last_pos = [s \in Samples |-> 0]
    /\ rows_read = [s \in Samples |-> 0]
    /\ gen_pc = [s \in Samples |-> "loop"]
    /\ candidate_pos_list = [s \in Samples |-> <<>>]
    /\ current_pos_index = [s \in Samples |-> 0]
    /\ pileup_dict = [s \in Samples |-> <<>>]
    /\ hap_dict = [s \in Samples |-> <<>>]
    /\ haplotag_dict = <<>>
    /\ heap = [s \in Samples |-> EmptyItem]
    /\ awaiting = "none"
    /\ normal_candidates_set = {}
    /\ skip_if_normal_empty = TRUE
    /\ main_pc = "start"
    /\ cur_pos = 0
    /\ error = "none"
    /\ records = <<>>
    /\ abs_events = [s \in Samples |-> <<>>]
    /\ merged = <<>>
    /\ emitted = <<>>
    /\ emit_windows = <<>>
    /\ stored = [s \in Samples |-> {}]

\* the call of decode_pileup_bases on the row
Decode ==
    /\ main_pc = "start"
    /\ main_pc' = "done"
    /\ records' = <<decode_pileup_bases(1, PileupBases(cfg.reads), cfg.reference_base,
                                        FALSE, <<>>, TRUE)>>
    /\ UNCHANGED <<cfg, gen_vars, haplotag_dict, heap, awaiting, normal_candidates_set,
                   skip_if_normal_empty, cur_pos, error, abs_events, merged, emitted,
                   emit_windows>>

NextDecode == Decode

SpecDecode == InitDecode /\ [][NextDecode]_vars

(***************************************************************************)
(* Properties.                                                             *)
(***************************************************************************)
AfMode == cfg.candidates_bed = {} /\ ~cfg.vcf_given

\* C1: the positions the paired merge emits over the two generators are
\* non-decreasing: each emitted position is at most the next one.
C1_EmittedNonDecreasing ==
    \A i \in 1..(Len(emitted) - 1) : emitted[i] <= emitted[i + 1]

\* two positions were emitted, the second larger than the first
C1_Witness == Len(emitted) >= 2 /\ emitted[1] < emitted[2]

\* the positions of normal events received before the i-th event and not
\* consumed by an emission since
NormalSeenBefore(i) ==
    {merged[j].pos : j \in {k \in 1..(i - 1) :
        /\ ~merged[k].is_tumor
        /\ ~\E m \in (k + 1)..(i - 1) :
                merged[m].is_tumor /\ merged[m].yielded /\ merged[m].pos = merged[k].pos}}

\* C2: with skip_if_normal_empty a tumor event at pos is emitted only if a
\* normal event at pos was received earlier and no emission consumed it since;
\* without skip_if_normal_empty every tumor event is emitted.
C2_Pairedness ==
    \A i \in 1..Len(merged) :
        merged[i].is_tumor =>
            IF skip_if_normal_empty
            THEN merged[i].yielded => merged[i].pos \in NormalSeenBefore(i)
            ELSE merged[i].yielded

\* with skip_if_normal_empty, a normal event at a position, then a tumor event
\* there that is emitted, then a second tumor event there that is not
C2_Witness ==
    /\ skip_if_normal_empty
    /\ \E i \in 1..Len(merged) : \E j \in 1..Len(merged) : \E k \in 1..Len(merged) :
        /\ i < j /\ j < k
        /\ merged[i].pos = merged[j].pos /\ merged[j].pos = merged[k].pos
        /\ ~merged[i].is_tumor
        /\ merged[j].is_tumor /\ merged[j].yielded
        /\ merged[k].is_tumor /\ ~merged[k].yielded

\* C3: when the paired merge emits c, each stream's window holds, at that
\* moment, every row of positions c-F..c+F that the stream's generator stores
\* at any time of the run.
C3_WindowComplete ==
    \A i \in 1..Len(emit_windows) : \A s \in Samples : \A p \in stored[s] :
        (p >= emitted[i] - flanking_base_num /\ p <= emitted[i] + flanking_base_num)
            => p \in emit_windows[i][s]

\* a position was emitted while a window held a neighbour of it and a window
\* had lost an earlier row to the trimming
C3_Witness ==
    \E i \in 1..Len(emit_windows) :
        /\ \E s \in Samples :
                (emitted[i] - 1) \in emit_windows[i][s] \/ (emitted[i] + 1) \in emit_windows[i][s]
        /\ \E s \in Samples : \E q \in stored[s] :
                q < emitted[i] - flanking_base_num /\ q \notin emit_windows[i][s]

\* the number of reads of a row that count towards its depth
DepthOfRow(base_list) ==
    Cardinality({i \in 1..Len(base_list) :
        Upper(base_list[i].base) \in {"A", "C", "G", "T"} \/ base_list[i].base \in {"#", "*"}})

\* the number of reads of a row with the base x
BaseCountOfRow(base_list, x) ==
    Cardinality({i \in 1..Len(base_list) : Upper(base_list[i].base) = x})

\* the number of reads of a row with an indel of the given sign
IndelCountOfRow(base_list, sign) ==
    Cardinality({i \in 1..Len(base_list) :
        Len(base_list[i].indel) > 0 /\ base_list[i].indel[1] = sign})

\* count / depth >= tau, tau being <<numerator, denominator>>
FractionAtLeast(count, depth, tau) == count * tau[2] >= tau[1] * depth

\* C4: without a candidate BED and without a known VCF, an emitted position
\* has, in the tumor stream, a depth of at least min_coverage and either a
\* base other than the reference with count / depth >= the SNV threshold or
\* insertions, or deletions, with count / depth >= the indel threshold.
C4_AfGate ==
    (AfMode /\ main_pc = "emit") =>
        /\ cur_pos \in DOMAIN pileup_dict["tumor"]
        /\ DepthOfRow(pileup_dict["tumor"][cur_pos].base_list) >= min_coverage
        /\ \/ \E x \in {"A", "C", "G", "T"} \ {pileup_dict["tumor"][cur_pos].ref_base} :
                FractionAtLeast(BaseCountOfRow(pileup_dict["tumor"][cur_pos].base_list, x),
                                DepthOfRow(pileup_dict["tumor"][cur_pos].base_list),
                                minimum_snv_af_for_candidate)
           \/ \E sign \in {"+", "-"} :
                FractionAtLeast(IndelCountOfRow(pileup_dict["tumor"][cur_pos].base_list, sign),
                                DepthOfRow(pileup_dict["tumor"][cur_pos].base_list),
                                minimum_indel_af_for_candidate)

\* a position is emitted whose tumor row passes by its insertions alone, after
\* the tumor stream stored a row that was no candidate
C4_Witness ==
    /\ AfMode /\ main_pc = "emit"
    /\ cur_pos \in DOMAIN pileup_dict["tumor"]
    /\ ~\E x \in {"A", "C", "G", "T"} \ {pileup_dict["tumor"][cur_pos].ref_base} :
            FractionAtLeast(BaseCountOfRow(pileup_dict["tumor"][cur_pos].base_list, x),
                            DepthOfRow(pileup_dict["tumor"][cur_pos].base_list),
                            minimum_snv_af_for_candidate)
    /\ stored["tumor"] \ Range(candidate_pos_list["tumor"]) # {}

\* the number of distinct reads of the rows of the window of center_pos
ReadsGathered(pd, center_pos) ==
    Cardinality(UNION {Range(pd[p].read_name_list) :
        p \in {q \in DOMAIN pd : q >= center_pos - flanking_base_num
                                 /\ q <= center_pos + flanking_base_num}})

\* every row of a tensor has W columns of channel_size channels
WellShaped(tensor) ==
    \A r \in 1..Len(tensor) :
        /\ Len(tensor[r]) = no_of_positions
        /\ \A col \in 1..no_of_positions : Len(tensor[r][col]) = channel_size

\* the record the step appends to the output
LastRecord == records'[Len(records')]

C6_AtMostOnce ==
    \A i \in 1..Len(emitted) : \A j \in 1..Len(emitted) :
        emitted[i] = emitted[j] => i = j

\* C6, corrected: with skip_if_normal_empty no position is emitted twice,
\* however many tumor events at it the paired merge receives.
C6_AtMostOnceWhenSkipping ==
    skip_if_normal_empty =>
        \A i \in 1..Len(emitted) : \A j \in 1..Len(emitted) :
            emitted[i] = emitted[j] => i = j

\* with skip_if_normal_empty, two tumor events at an emitted position were
\* received
C6_Witness ==
    /\ skip_if_normal_empty
    /\ \E i \in 1..Len(merged) : \E j \in 1..Len(merged) :
        /\ i < j
        /\ merged[i].is_tumor /\ merged[j].is_tumor
        /\ merged[i].pos = merged[j].pos
        /\ merged[i].yielded

\* C7 as stated: with a candidate BED, the candidates of each generator are
\* exactly the centers of the BED within the contig range, whatever the allele
\* frequencies and depths of the rows.
C7_CandidatesAreBedCenters ==
    cfg.candidates_bed # {} =>
        \A s \in Samples :
            Range(candidate_pos_list[s])
                = {BedCenter(row) : row \in
                    {r \in cfg.candidates_bed :
                        BedCenter(r) >= CtgStart(cfg) /\ BedCenter(r) <= CtgEnd(cfg)}}

\* C8 as stated: with a confident-region BED, a candidate whose window misses
\* it is skipped and the run goes on: no exception ends it.
C8_RunGoesOn ==
    cfg.confident_bed # {} => error # "KeyError"

\* C9 as stated: no exception leaves a generator, whatever the rows.
C9_NoExceptionEscapes ==
    \A s \in Samples : gen_pc[s] # "raised"

\* the window as it was read from the pileup: no Position was updated
Pristine(pd) ==
    [p \in DOMAIN pd |-> [pd[p] EXCEPT !.update_info = FALSE, !.read_info = <<>>]]

\* C10 as stated: the tensors written for a candidate are those built from the
\* window as read from the pileup, whatever candidates were built before.
C10_TensorsFromWindowOnly ==
    [][Len(records') > Len(records) =>
        /\ LastRecord.normal_tensor
            = BuildPair(cfg, cur_pos, [s \in Samples |-> Pristine(pileup_dict[s])],
                        hap_dict, haplotag_dict).normal_tensor
        /\ LastRecord.tumor_tensor
            = BuildPair(cfg, cur_pos, [s \in Samples |-> Pristine(pileup_dict[s])],
                        hap_dict, haplotag_dict).tumor_tensor]_vars

\* the reads of the rows of the tumor tensor built for cur_pos, in row order
TumorRowReads ==
    sorted_by_hap_read_name(cur_pos, haplotag_dict, pileup_dict["tumor"], hap_dict["tumor"],
                            tumor_matrix_depth, tensor_sample_mode).sorted_read_name_list

\* the bases a read inserts after position p, <<>> when it inserts none
InsertedAt(pd, p, read_name) ==
    IF p \in DOMAIN pd /\ read_name \in Range(pd[p].read_name_list)
    THEN InsBase(pd[p].base_list[LastOf(pd[p], read_name)].indel)
    ELSE <<>>

\* no Position of the window of center_pos was used for a tensor yet
WindowFresh(pd, center_pos) ==
    \A p \in DOMAIN pd :
        (p >= WindowStart(center_pos) /\ p < WindowEnd(center_pos)) => ~pd[p].update_info

\* the read of a row inserts bases at column o (position start + o) and at no
\* other column of the window
OnlyInsertionAt(pd, start_pos, read_name, o) ==
    /\ InsertedAt(pd, start_pos + o, read_name) # <<>>
    /\ \A q \in 0..(no_of_positions - 1) :
            q # o => InsertedAt(pd, start_pos + q, read_name) = <<>>

\* C11 as stated: in a tumor tensor built from a window no tensor was built
\* from before, a read whose only insertion is at column o has the first
\* inserted bases in channel 6 of columns o+1, o+2, ... up to the last column,
\* and no inserted base in channel 6 of column o.
C11_InsertionSpillsRightOfColumn ==
    [][(Len(records') > Len(records) /\ WindowFresh(pileup_dict["tumor"], cur_pos)) =>
        \A r \in 1..Len(TumorRowReads) : \A o \in 0..(no_of_positions - 2) :
            OnlyInsertionAt(pileup_dict["tumor"], WindowStart(cur_pos),
                            TumorRowReads[r].read_name, o) =>
                /\ LastRecord.tumor_tensor[r][o + 1][7] = 0
                /\ \A k \in 1..Min(Len(InsertedAt(pileup_dict["tumor"],
                                                  WindowStart(cur_pos) + o,
                                                  TumorRowReads[r].read_name)),
                                   no_of_positions - 1 - o) :
                        LastRecord.tumor_tensor[r][o + 1 + k][7]
                            = ACGT_NUM(InsertedAt(pileup_dict["tumor"],
                                                  WindowStart(cur_pos) + o,
                                                  TumorRowReads[r].read_name)[k])]_vars

\* the read names of the window of cur_pos, row after row
SortGathered ==
    NearbyReadNames(pileup_dict["tumor"], WindowStart(cur_pos), WindowEnd(cur_pos))

\* the index of the first appearance of a read name in a list of names
FirstAppearance(names, x) ==
    CHOOSE i \in 1..Len(names) :
        names[i] = x /\ \A j \in 1..(i - 1) : names[j] # x

RECURSIVE SplitOn(_, _)
\* str.split(sep) on a sequence of characters
SplitOn(chars, sep) ==
    IF \A i \in 1..Len(chars) : chars[i] # sep THEN <<chars>>
    ELSE <<SubSeq(chars, 1, (CHOOSE i \in 1..Len(chars) :
                                chars[i] = sep /\ \A j \in 1..(i - 1) : chars[j] # sep) - 1)>>
         \o SplitOn(SubSeq(chars, (CHOOSE i \in 1..Len(chars) :
                                chars[i] = sep /\ \A j \in 1..(i - 1) : chars[j] # sep) + 1,
                           Len(chars)), sep)

RECURSIVE StrInt(_)
\* int(chars) for a sequence of digits
StrInt(chars) ==
    IF chars = <<>> THEN 0
    ELSE 10 * StrInt(SubSeq(chars, 1, Len(chars) - 1)) + DigitVal(chars[Len(chars)])

\* the tokens of the middle field of an AltInfo string: alt1 count1 alt2 ...
AltTokens(alt_info) ==
    IF SplitOn(alt_info, "-")[2] = <<>> THEN <<>> ELSE SplitOn(SplitOn(alt_info, "-")[2], " ")

\* the number of reads of a row whose allele has the given name in AltInfo
ReadsWithAlt(base_list, ref_base, center_pos, name) ==
    Cardinality({j \in 1..Len(base_list) :
        /\ AltKey(base_list[j], ref_base) # <<>>
        /\ AltName(AltKey(base_list[j], ref_base), center_pos,
                   reference_sequence, reference_start) = name})

\* an AltInfo string parses back to the depth and the alleles of a row: three
\* fields, the depth, then each allele of the row once with the number of
\* reads that carry it
ParsesBackTo(alt_info, base_list, ref_base, center_pos) ==
    /\ Len(SplitOn(alt_info, "-")) = 3
    /\ StrInt(SplitOn(alt_info, "-")[1]) = Len(base_list)
    /\ Len(AltTokens(alt_info)) % 2 = 0
    /\ \A a \in 1..(Len(AltTokens(alt_info)) \div 2) :
            /\ \A b \in 1..(Len(AltTokens(alt_info)) \div 2) :
                    AltTokens(alt_info)[2 * a - 1] = AltTokens(alt_info)[2 * b - 1] => a = b
            /\ StrInt(AltTokens(alt_info)[2 * a])
                    = ReadsWithAlt(base_list, ref_base, center_pos,
                                   AltTokens(alt_info)[2 * a - 1])
    /\ \A j \in 1..Len(base_list) :
            AltKey(base_list[j], ref_base) # <<>> =>
                \E a \in 1..(Len(AltTokens(alt_info)) \div 2) :
                    AltTokens(alt_info)[2 * a - 1]
                        = AltName(AltKey(base_list[j], ref_base), center_pos,
                                  reference_sequence, reference_start)

\* C13 as stated: the AltInfo strings of a record parse back to the depth and
\* the allele counts of the center rows of the two samples, each allele once,
\* whatever the literals of the deletions of the reads.
C13_AltInfoRoundTrip ==
    [][Len(records') > Len(records) =>
        /\ ParsesBackTo(LastRecord.normal_alt_info, pileup_dict["normal"][cur_pos].base_list,
                        pileup_dict["normal"][cur_pos].ref_base, cur_pos)
        /\ ParsesBackTo(LastRecord.tumor_alt_info, pileup_dict["tumor"][cur_pos].base_list,
                        pileup_dict["tumor"][cur_pos].ref_base, cur_pos)]_vars

\* C14 as stated: once the pileup process that dies before it has written
\* all its rows has closed its stream, the chunk is aborted: no record is
\* written from then on and the run does not end as after a clean end of
\* input.
C14_UpstreamFailurePropagated ==
    [][(/\ cfg.upstream_closed # "none"
        /\ gen_pc[cfg.upstream_closed] \in {"flush", "yield_flush", "done"})
            => (Len(records') = Len(records) /\ main_pc' # "done")]_vars

\* inside the requested contig range
InCtgRange(c, p) == p >= CtgStart(c) /\ p <= CtgEnd(c)

\* C15 as stated: with a contig range, no row of a position outside
\* [ctg_start, ctg_end] is stored in a window or becomes a candidate, and
\* every emitted position lies inside the range.
C15_OutsideRangeSkipped ==
    IsCtgRangeGiven(cfg) =>
        /\ \A s \in Samples : \A p \in stored[s] : InCtgRange(cfg, p)
        /\ \A s \in Samples : \A i \in 1..Len(candidate_pos_list[s]) :
                InCtgRange(cfg, candidate_pos_list[s][i])
        /\ \A i \in 1..Len(emitted) : InCtgRange(cfg, emitted[i])

\* C16 as stated: the ranges [ctg_start, ctg_end] of the chunks 1..n of a
\* contig of length L are pairwise disjoint, and together they hold every
\* position 1..L.
C16_ChunksTileContig ==
    /\ \A i \in 1..Len(records) : \A j \in 1..Len(records) :
            i # j => (\/ records[i].ctg_end < records[j].ctg_start
                      \/ records[j].ctg_end < records[i].ctg_start)
    /\ Len(records) = cfg.chunk_num =>
            \A p \in 1..cfg.contig_length :
                \E i \in 1..Len(records) :
                    p >= records[i].ctg_start /\ p <= records[i].ctg_end

\* the reference base at a position is none of A, C, G, T
NonAcgtAt(pos) ==
    Upper(reference_sequence[pos - reference_start + 1]) \notin {"A", "C", "G", "T"}

\* C19: when a generator reads a row whose reference base is none of A, C, G,
\* T, its window, its candidates and its haplotype map stay as they are, it
\* yields nothing and raises nothing, and it goes on to the next row.
C19_NonAcgtRowSkipped ==
    [][\A s \in Samples :
        (rows_read'[s] > rows_read[s] /\ NonAcgtAt(last_pos'[s])) =>
            /\ pileup_dict' = pileup_dict
            /\ candidate_pos_list' = candidate_pos_list
            /\ current_pos_index' = current_pos_index
            /\ hap_dict' = hap_dict
            /\ stored' = stored
            /\ heap' = heap
            /\ gen_pc'[s] = "loop" /\ awaiting' = s
            /\ error' = error /\ main_pc' = main_pc]_vars

\* with phasing on, a generator that holds a stored row and a pending
\* candidate has just read a row whose reference base is none of A, C, G, T
C19_Witness ==
    \E s \in Samples :
        /\ cfg.phase
        /\ last_pos[s] >= 1 /\ NonAcgtAt(last_pos[s])
        /\ last_pos[s] \notin stored[s]
        /\ stored[s] # {}
        /\ current_pos_index[s] < Len(candidate_pos_list[s])
        /\ gen_pc[s] = "loop"

\* the type the candidate BED gives a position, "" when no row of it has the
\* position as its center
BedTypeOf(c, pos) ==
    IF \E row \in c.candidates_bed : BedCenter(row) = pos
    THEN (CHOOSE row \in c.candidates_bed : BedCenter(row) = pos)[3]
    ELSE ""

HetSnpCall(row) ==
    /\ row.ctg = cfg.ctg_name
    /\ Len(row.ref) = 1 /\ Len(row.alt) = 1
    /\ \/ row.gt \in {<<"0", "/", "1">>, <<"1", "/", "0">>}
       \/ row.gt \in {<<"0", "|", "1">>, <<"1", "|", "0">>}

\* the heterozygous SNP calls of a file, and the positions they are at
HetSnpCalls(vcf) == {i \in 1..Len(vcf) : HetSnpCall(vcf[i])}

HetSnpPositions(vcf) == {vcf[i].pos : i \in HetSnpCalls(vcf)}

\* the normal call at position p: the last heterozygous SNP row of the normal
\* VCF at p
NormalCall(p) ==
    cfg.normal_vcf[CHOOSE i \in HetSnpCalls(cfg.normal_vcf) :
        /\ cfg.normal_vcf[i].pos = p
        /\ \A j \in HetSnpCalls(cfg.normal_vcf) : cfg.normal_vcf[j].pos = p => j <= i]

\* the positions eligible for output, and the rows written after the header
EligiblePositions == DictKeys(TumorRead(cfg).kept)

OutputRecords == SelectSeq(records, LAMBDA row : row.ctg # "#")

\* C17: a position of the normal heterozygous SNP set is eligible for output
\* exactly when the tumor VCF has a heterozygous SNP call at that position
\* with the REF and ALT of the normal call; the output never holds a tumor
\* call whose REF or ALT differs from the normal call at its position, nor a
\* tumor-only call of QUAL below min_qual; every written record is at an
\* eligible position, and all eligible positions are written when no
\* percentile is cut.
C17_EligibleIffMatchingTumorCall ==
    (cfg.name = "select" /\ main_pc = "done") =>
        /\ \A p \in HetSnpPositions(cfg.normal_vcf) :
            p \in EligiblePositions <=>
                \E i \in HetSnpCalls(cfg.tumor_vcf) :
                    /\ cfg.tumor_vcf[i].pos = p
                    /\ cfg.tumor_vcf[i].ref = NormalCall(p).ref
                    /\ cfg.tumor_vcf[i].alt = NormalCall(p).alt
        /\ \A k \in 1..Len(OutputRecords) :
            /\ OutputRecords[k].pos \in EligiblePositions
            /\ IF OutputRecords[k].pos \in HetSnpPositions(cfg.normal_vcf)
               THEN /\ OutputRecords[k].ref = NormalCall(OutputRecords[k].pos).ref
                    /\ OutputRecords[k].alt = NormalCall(OutputRecords[k].pos).alt
               ELSE OutputRecords[k].qual >= cfg.min_qual
        /\ cfg.var_pct_full[1] = 0 =>
            {OutputRecords[k].pos : k \in 1..Len(OutputRecords)} = EligiblePositions

\* a run that writes the matching tumor call of one normal position and drops
\* the mismatching tumor call of another
C17_Witness ==
    /\ cfg.name = "select" /\ main_pc = "done"
    /\ HetSnpPositions(cfg.normal_vcf) = {1, 2}
    /\ HetSnpPositions(cfg.tumor_vcf) = {1, 2}
    /\ EligiblePositions = {1}
    /\ Len(OutputRecords) = 1 /\ OutputRecords[1].pos = 1
    /\ \E i \in HetSnpCalls(cfg.tumor_vcf) :
        cfg.tumor_vcf[i].pos = 2 /\ cfg.tumor_vcf[i].alt # NormalCall(2).alt

\* C18: the output is the header lines of the normal VCF, in their order,
\* followed by rows of the tumor VCF only, one for each passing position, in
\* strictly increasing order of position; every such row is on the contig
\* asked for and has a single-base REF and ALT and the genotype 0/1 or 1/0,
\* written with "/" or "|".
C18_OutputForm ==
    (cfg.name = "select" /\ main_pc = "done") =>
        LET h == SelectSeq(cfg.normal_vcf, LAMBDA row : row.ctg = "#")
            n == Len(records) - Len(h)
        IN  /\ n >= 0
            /\ SubSeq(records, 1, Len(h)) = h
            /\ \A k \in 1..n :
                /\ records[Len(h) + k].file = "tumor"
                /\ \E i \in 1..Len(cfg.tumor_vcf) : cfg.tumor_vcf[i] = records[Len(h) + k]
                /\ HetSnpCall(records[Len(h) + k])
            /\ \A k \in 1..(n - 1) : records[Len(h) + k].pos < records[Len(h) + k + 1].pos
            /\ {records[Len(h) + k].pos : k \in 1..n} =
                PassPositions(ReadNormalVcf(cfg.normal_vcf, 1, cfg.ctg_name, <<>>),
                              TumorRead(cfg), cfg.var_pct_full)

\* a run whose tumor VCF lists two passing positions in descending order and
\* whose output holds the normal header and both rows in ascending order
C18_Witness ==
    /\ cfg.name = "select" /\ main_pc = "done"
    /\ Len(records) = 3
    /\ records[1].file = "normal" /\ records[1].ctg = "#"
    /\ records[2].file = "tumor" /\ records[3].file = "tumor"
    /\ records[2].pos < records[3].pos
    /\ cfg.tumor_vcf = <<records[3], records[2]>>

\* the generator s has read one more row in this step, and stored it
RowStep(s) == rows_read'[s] = rows_read[s] + 1

RowStored(s) == last_pos'[s] \in DOMAIN pileup_dict'[s]

\* the generator s resumes after a yield in this step: it trims and advances
ResumeStep(s) == current_pos_index'[s] = current_pos_index[s] + 1

\* the rule of the per-stream generator for the distance d: a stored row makes
\* the generator yield the candidate at its cursor exactly when the row lies
\* more than d after that candidate, the yielded item is that candidate, and
\* the trim that follows removes exactly the keys lying more than d before it
YieldAndTrimRule(d) ==
    \A s \in Samples :
        /\ (RowStep(s) /\ RowStored(s) /\ error' = "none") =>
            /\ gen_pc'[s] = "yield_loop" <=>
                /\ current_pos_index[s] < Len(candidate_pos_list'[s])
                /\ last_pos'[s] - candidate_pos_list'[s][current_pos_index[s] + 1] > d
            /\ gen_pc'[s] = "yield_loop" =>
                heap'[s] = Item(candidate_pos_list'[s][current_pos_index[s] + 1])
        /\ (RowStep(s) /\ ~RowStored(s)) => gen_pc'[s] # "yield_loop"
        /\ ResumeStep(s) =>
            DOMAIN pileup_dict'[s] =
                {k \in DOMAIN pileup_dict[s] :
                    ~(k < candidate_pos_list[s][current_pos_index[s] + 1] - d)}

C22_WindowBounded ==
    \A s \in Samples :
        Cardinality(DOMAIN pileup_dict[s]) <= 2 * flanking_base_num + extend_bp + 1

\* the positions the generator s has yielded so far: the events heapq.merge
\* has handed on, then the item it still holds
YieldedBy(s) ==
    [i \in 1..Len(SelectSeq(merged, LAMBDA e : e.is_tumor = IsTumor(s))) |->
        SelectSeq(merged, LAMBDA e : e.is_tumor = IsTumor(s))[i].pos]
    \o (IF heap[s].tag = "item" THEN <<heap[s].pos>> ELSE <<>>)

\* the yields of s are the first candidates of its list, in the order of the list
YieldsInListOrder(s) ==
    /\ Len(YieldedBy(s)) <= Len(candidate_pos_list[s])
    /\ YieldedBy(s) = SubSeq(candidate_pos_list[s], 1, Len(YieldedBy(s)))

TieAt(i) ==
    /\ merged[i].is_tumor
    /\ \E k \in 1..Len(candidate_pos_list["normal"]) :
        candidate_pos_list["normal"][k] = merged[i].pos

\* C24: when the paired merge takes a tumor event at a position that the
\* normal generator yields too, it has taken the normal event at that
\* position before, and it yields the position; this holds however far either
\* stream has been read.
C24_NormalBeforeTumorOnTie ==
    \A i \in 1..Len(merged) :
        TieAt(i) =>
            /\ \E j \in 1..(i - 1) : ~merged[j].is_tumor /\ merged[j].pos = merged[i].pos
            /\ merged[i].yielded
            /\ \E k \in 1..Len(emitted) : emitted[k] = merged[i].pos

\* a tie that is emitted, the tumor stream having been read further than the
\* normal stream
C24_Witness ==
    /\ Len(emitted) >= 1
    /\ \E i \in 1..Len(merged) : TieAt(i) /\ merged[i].yielded
    /\ last_pos["tumor"] > last_pos["normal"]
    /\ rows_read["normal"] >= 1

\* the allele-frequency gate on a row: a base other than the reference, the
\* insertions or the deletions reach their threshold
GatePasses(base_list, ref_base) ==
    \/ \E x \in {"A", "C", "G", "T"} \ {ref_base} :
        FractionAtLeast(BaseCountOfRow(base_list, x), Denominator(DepthOfRow(base_list)),
                        minimum_snv_af_for_candidate)
    \/ \E sign \in {"+", "-"} :
        FractionAtLeast(IndelCountOfRow(base_list, sign), Denominator(DepthOfRow(base_list)),
                        minimum_indel_af_for_candidate)

\* the row the generator s has just stored passes the gate and min_coverage
StoredRowPasses(s) ==
    /\ GatePasses(pileup_dict'[s][last_pos'[s]].base_list, pileup_dict'[s][last_pos'[s]].ref_base)
    /\ DepthOfRow(pileup_dict'[s][last_pos'[s]].base_list) >= min_coverage

\* the position of the row the generator s has just read is appended to its
\* candidates
Appended(s) == candidate_pos_list'[s] = Append(candidate_pos_list[s], last_pos'[s])

\* C25 as stated: the position of an accepted row is appended exactly when
\* (a) there is no candidate BED and the row passes the gate and min_coverage,
\* or (b) there is a known VCF and it lists the position, or (c) there is a
\* candidate BED and the position is in it; nothing else changes the list.
C25_AppendedWhenAnyModeAccepts ==
    [][\A s \in Samples :
        RowStep(s) =>
            IF RowStored(s)
            THEN IF \/ cfg.candidates_bed = {} /\ StoredRowPasses(s)
                    \/ cfg.vcf_given /\ last_pos'[s] \in cfg.known_variants
                    \/ /\ cfg.candidates_bed # {}
                       /\ \E row \in cfg.candidates_bed :
                            row[1] < last_pos'[s] /\ last_pos'[s] <= row[2]
                 THEN Appended(s)
                 ELSE candidate_pos_list'[s] = candidate_pos_list[s]
            ELSE candidate_pos_list'[s] = candidate_pos_list[s]]_vars

\* C25, amended: the position of a stored row is appended exactly when the
\* candidate BED left no candidate (candidates_pos_set is empty) and either
\* (a) there is no known VCF and the row passes the gate and min_coverage, or
\* (b) there is a known VCF and it lists the position; with candidates from
\* the BED no row appends anything, and a row that is not stored never does.
C25_AppendedByModePrecedence ==
    [][\A s \in Samples :
        RowStep(s) =>
            IF RowStored(s)
            THEN IF /\ CandidatesPosSet(cfg) = {}
                    /\ IF cfg.vcf_given THEN last_pos'[s] \in cfg.known_variants
                       ELSE StoredRowPasses(s)
                 THEN Appended(s)
                 ELSE candidate_pos_list'[s] = candidate_pos_list[s]
            ELSE candidate_pos_list'[s] = candidate_pos_list[s]]_vars

\* with a known VCF, a generator has appended a listed position whose row
\* fails the gate and has stored, without appending it, a row that passes the
\* gate and min_coverage
C25_Witness ==
    /\ cfg.vcf_given
    /\ \E s \in Samples : \E p \in DOMAIN pileup_dict[s] : \E q \in DOMAIN pileup_dict[s] :
        /\ p \in Range(candidate_pos_list[s])
        /\ ~GatePasses(pileup_dict[s][p].base_list, pileup_dict[s][p].ref_base)
        /\ q \notin Range(candidate_pos_list[s])
        /\ GatePasses(pileup_dict[s][q].base_list, pileup_dict[s][q].ref_base)
        /\ DepthOfRow(pileup_dict[s][q].base_list) >= min_coverage

\* C26: every Position held in a window has one decoded (base, indel) pair,
\* one read name, one base quality and one mapping quality per read: a row in
\* which these four lengths disagree is never stored.
C26_StoredRowsAligned ==
    \A s \in Samples : \A p \in DOMAIN pileup_dict[s] :
        /\ Len(pileup_dict[s][p].base_list) = Len(pileup_dict[s][p].read_name_list)
        /\ Len(pileup_dict[s][p].raw_base_quality) = Len(pileup_dict[s][p].read_name_list)
        /\ Len(pileup_dict[s][p].raw_mapping_quality) = Len(pileup_dict[s][p].read_name_list)

\* the row was decoded and no exception left the call
Decoded == cfg.name = "decode" /\ main_pc = "done" /\ ~records[1].raised

\* the row holds no read written '.' or ','
NoDotReads == \A i \in 1..Len(cfg.reads) : cfg.reads[i].base \notin {".", ","}

\* the (base, indel) pair of a read: its base, and the sign and the sequence
\* of its indel
TokenOf(read) ==
    [base |-> read.base,
     indel |-> IF read.sign = "" THEN <<>> ELSE <<read.sign>> \o read.seq]

\* C27: of a row written with bases, '^' and a quality character, indels with
\* their length, and '$', the scanner returns the (base, indel) pairs of the
\* reads, in order and nothing else: the characters of an indel sequence are
\* attached to the base before them and give no base token, the character
\* after '^' is dropped whatever it is, '$' gives no token, and the scan goes
\* on right after each of them.
C27_ScannerTokens ==
    (cfg.name = "decode" /\ main_pc = "done" /\ NoDotReads) =>
        /\ ~records[1].raised
        /\ records[1].base_list = [i \in 1..Len(cfg.reads) |-> TokenOf(cfg.reads[i])]

\* a decoded row with a read that starts with the quality character '+', one
\* with the quality character 'A', an insertion of ten bases and a read that
\* ends
C27_Witness ==
    /\ Decoded /\ NoDotReads
    /\ Len(cfg.reads) = 3
    /\ cfg.reads[1].head = <<"^", "+">>
    /\ cfg.reads[2].head = <<"^", "A">>
    /\ Len(cfg.reads[3].seq) = 10 /\ cfg.reads[3].tail = <<"$">>
    /\ Len(records[1].base_list) = 3

\* C28: a read written '.' or ',' gives one base token and counts towards the
\* depth: the decoded list has one token per read of the row, and the depth
\* counts the '.' and ',' reads.
C28_DotCommaAreReads ==
    Decoded =>
        /\ Len(records[1].base_list) = Len(cfg.reads)
        /\ records[1].depth >=
                Cardinality({i \in 1..Len(cfg.reads) : cfg.reads[i].base \in {".", ","}})

\* the reads with the base b and no indel
SnvCount(base_list, b) ==
    Cardinality({i \in 1..Len(base_list) :
        Upper(base_list[i].base) = b /\ base_list[i].indel = <<>>})

\* C29: the gate passes exactly when a base b other than the reference,
\* counted over the reads with base b and no indel, reaches the SNV threshold,
\* or the insertions or the deletions reach the indel threshold: a read with an
\* indel counts for the indel and not for its base.
C29_SnvCountExcludesIndelReads ==
    Decoded =>
        (records[1].pass_af <=>
            \/ \E b \in {"A", "C", "G", "T"} \ {cfg.reference_base} :
                FractionAtLeast(SnvCount(records[1].base_list, b),
                                Denominator(records[1].depth), minimum_snv_af_for_candidate)
            \/ \E sign \in {"+", "-"} :
                FractionAtLeast(IndelCountOfRow(records[1].base_list, sign),
                                Denominator(records[1].depth), minimum_indel_af_for_candidate))

\* C30: depth is the number of reads with the base A, C, G or T in either
\* case or the token '#' or '*'; af is 0 when depth is 0 and never exceeds 1,
\* the count it divides never exceeding depth.
C30_AfWithinDepth ==
    Decoded =>
        /\ records[1].depth = DepthOfRow(records[1].base_list)
        /\ records[1].depth = 0 => records[1].af[1] = 0
        /\ records[1].af[1] <= records[1].depth
        /\ records[1].af[1] <= records[1].af[2]

\* the sorted_read_name_list a call of sorted_by_hap_read_name returned
SortedNames(i) == records[i].sorted_read_name_list

NormalRowReads ==
    sorted_by_hap_read_name(cur_pos, haplotag_dict, pileup_dict["normal"], hap_dict["normal"],
                            normal_matrix_depth, tensor_sample_mode).sorted_read_name_list

\* the reads of the rows of the tensor of a sample, and that tensor in the
\* record the step appends
RowReads(s) == IF IsTumor(s) THEN TumorRowReads ELSE NormalRowReads
TensorWritten(s) == IF IsTumor(s) THEN LastRecord.tumor_tensor ELSE LastRecord.normal_tensor

\* the read has a token in the pileup row at position p
ReadAt(pd, p, read_name) ==
    /\ p \in DOMAIN pd
    /\ \E i \in 1..ZipLen(pd[p]) : pd[p].read_name_list[i] = read_name

\* the (base, indel) token of the read in the row at position p
BaseInfoAt(pd, p, read_name) == pd[p].base_list[LastOf(pd[p], read_name)]

\* C32: in every tensor written, the cell of a read at a column where its
\* token is '*' or '#' has the gap code in channel 1 and zero in every other
\* channel, whatever the read inserts at other columns.
C32_DeletionCellOnlyGapCode ==
    [][Len(records') > Len(records) =>
        \A s \in Samples : \A r \in 1..Len(RowReads(s)) : \A o \in 0..(no_of_positions - 1) :
            (/\ ReadAt(pileup_dict[s], WindowStart(cur_pos) + o, RowReads(s)[r].read_name)
             /\ BaseInfoAt(pileup_dict[s], WindowStart(cur_pos) + o,
                           RowReads(s)[r].read_name).base \in {"*", "#"})
                => TensorWritten(s)[r][o + 1]
                    = [ZeroChannel EXCEPT ![2] =
                        ACGT_NUM(BaseInfoAt(pileup_dict[s], WindowStart(cur_pos) + o,
                                            RowReads(s)[r].read_name).base)]]_vars

\* C33: in every tensor written, the cell of a read at a column whose pileup
\* row does not hold the read, or for which the window holds no row, has zero
\* in every channel.
C33_UnbackedCellAllZero ==
    [][Len(records') > Len(records) =>
        \A s \in Samples : \A r \in 1..Len(RowReads(s)) : \A o \in 0..(no_of_positions - 1) :
            ~ReadAt(pileup_dict[s], WindowStart(cur_pos) + o, RowReads(s)[r].read_name)
                => TensorWritten(s)[r][o + 1] = ZeroChannel]_vars

\* C34: in every tensor written, the cell of a read at a column where its
\* token carries an insertion or a deletion has in channel 1 the code of the
\* anchor base in the table A, C, G, T -> 1..4, and channel 1 of the cell of a
\* read is 0 only when the token is no indel.
C34_IndelAltIsAnchorBase ==
    [][Len(records') > Len(records) =>
        \A s \in Samples : \A r \in 1..Len(RowReads(s)) : \A o \in 0..(no_of_positions - 1) :
            (/\ ReadAt(pileup_dict[s], WindowStart(cur_pos) + o, RowReads(s)[r].read_name)
             /\ BaseInfoAt(pileup_dict[s], WindowStart(cur_pos) + o,
                           RowReads(s)[r].read_name).indel # <<>>)
                => /\ TensorWritten(s)[r][o + 1][2]
                        = ACGT_NUM(Upper(BaseInfoAt(pileup_dict[s], WindowStart(cur_pos) + o,
                                                    RowReads(s)[r].read_name).base))
                   /\ TensorWritten(s)[r][o + 1][2] # 0]_vars

\* the positions of the rows written after the header
OutputPositions == {OutputRecords[k].pos : k \in 1..Len(OutputRecords)}

\* C35: every position the selector writes is at a heterozygous single-base
\* SNP call of the normal VCF and at one of the tumor VCF.
C35_OutputInBothHetSnpSets ==
    (cfg.name = "select" /\ main_pc = "done") =>
        OutputPositions \subseteq
            (HetSnpPositions(cfg.normal_vcf) \cap HetSnpPositions(cfg.tumor_vcf))

\* the QUAL kept for position p of a file: that of its last heterozygous SNP
\* row at p
QualAt(vcf, p) ==
    vcf[CHOOSE i \in HetSnpCalls(vcf) :
            vcf[i].pos = p /\ \A j \in HetSnpCalls(vcf) : vcf[j].pos = p => j <= i].qual

\* L is a set of int(var_pct_full * N) positions of lowest QUAL among the N
\* positions of the heterozygous SNP calls of a file
IsLowQualSet(L, vcf) ==
    /\ L \subseteq HetSnpPositions(vcf)
    /\ Cardinality(L) * cfg.var_pct_full[2]
            <= cfg.var_pct_full[1] * Cardinality(HetSnpPositions(vcf))
    /\ (Cardinality(L) + 1) * cfg.var_pct_full[2]
            > cfg.var_pct_full[1] * Cardinality(HetSnpPositions(vcf))
    /\ \A a \in L : \A b \in HetSnpPositions(vcf) \ L : QualAt(vcf, a) <= QualAt(vcf, b)

\* C36: for each sample the low-quality set is int(var_pct_full * N) positions
\* of lowest QUAL among the N positions of its heterozygous single-base SNP
\* calls; an eligible position is written exactly when it is in neither
\* low-quality set, and with var_pct_full = 0 every eligible position is
\* written.
C36_LowQualTailDropped ==
    (cfg.name = "select" /\ main_pc = "done") =>
        /\ \E Ln \in SUBSET HetSnpPositions(cfg.normal_vcf) :
           \E Lt \in SUBSET HetSnpPositions(cfg.tumor_vcf) :
                /\ IsLowQualSet(Ln, cfg.normal_vcf)
                /\ IsLowQualSet(Lt, cfg.tumor_vcf)
                /\ OutputPositions = EligiblePositions \ (Ln \cup Lt)
        /\ cfg.var_pct_full[1] = 0 => OutputPositions = EligiblePositions

\* a run with a percentile cut and two eligible positions, of which the one of
\* lower QUAL is dropped and the other written
C36_Witness ==
    /\ cfg.name = "select" /\ main_pc = "done"
    /\ cfg.var_pct_full[1] # 0
    /\ Cardinality(EligiblePositions) = 2
    /\ Cardinality(OutputPositions) = 1
    /\ \A p \in EligiblePositions \ OutputPositions : \A q \in OutputPositions :
            QualAt(cfg.tumor_vcf, p) < QualAt(cfg.tumor_vcf, q)

C37_HapMapValuesFixed ==
    [][\A s \in Samples :
        /\ \A name \in DOMAIN hap_dict'[s] : hap_dict'[s][name] \in {0, 1, 2}
        /\ \A name \in DOMAIN hap_dict[s] :
            name \in DOMAIN hap_dict'[s] /\ hap_dict'[s][name] = hap_dict[s][name]
        /\ \A name \in (DOMAIN hap_dict'[s]) \ (DOMAIN hap_dict[s]) :
            hap_dict'[s][name] # 0 =>
                /\ RowStep(s)
                /\ cfg.phase
                /\ \E row \in cfg.rows[s] : \E i \in 1..Len(row.hp) :
                    /\ i <= Len(row.names)
                    /\ row.names[i] = name
                    /\ row.hp[i] \in {"1", "2"}
                    /\ DigitVal(row.hp[i]) = hap_dict'[s][name]]_vars

\* the tumor window holds a row of the two reads tagged 2 and 1, read after a
\* read ordering gave r2 the value 0 and after an earlier row gave r1 the
\* value 1, and the map still holds these values
C37_Witness ==
    /\ cfg.name = "retag"
    /\ records # <<>>
    /\ "r1" \in DOMAIN hap_dict["tumor"] /\ hap_dict["tumor"]["r1"] = 1
    /\ "r2" \in DOMAIN hap_dict["tumor"] /\ hap_dict["tumor"]["r2"] = 0
    /\ \E p \in DOMAIN pileup_dict["tumor"] :
        /\ p > records[1].pos
        /\ pileup_dict["tumor"][p].read_name_list = RowRetag.names

\* C38: a row that is read and left unstored because its HP count or its
\* decoded base count differs from its read-name count leaves the window, the
\* candidate list, the emit cursor and the haplotype map of its generator as
\* they were.
C38_RejectedRowLeavesNoTrace ==
    [][\A s \in Samples :
        (/\ RowStep(s)
         /\ ~RowStored(s)
         /\ error' = "none"
         /\ ReferenceBase(last_pos'[s]) \in {"A", "C", "G", "T"})
            => /\ pileup_dict'[s] = pileup_dict[s]
               /\ candidate_pos_list'[s] = candidate_pos_list[s]
               /\ current_pos_index'[s] = current_pos_index[s]
               /\ hap_dict'[s] = hap_dict[s]]_vars
====
